---- MODULE Spec2Model ----
(***************************************************************************)
(* stock-api: the count cache of StockBDRepository, the filter translator, *)
(* the validation of StockService.Find and the classification engine.      *)
(***************************************************************************)
EXTENDS Integers, Sequences, FiniteSets, TLC

VARIABLES
    stocks,       \* the rows of table "stocks", in insertion order
    countCache,   \* repository.countCache: cache key -> cached count
    countGroup,   \* repository.countGroup: cache key -> caller running fn for it
    flights,      \* the singleflight calls in flight, by the caller running fn
    pc,           \* per caller: position inside StockBDRepository.Count
    call,         \* per caller: the locals of its current Count
    lastOp,       \* the last sequential operation and what it returned
    event,        \* the domain.Stock object held in memory
    results,      \* the Classify calls made on it: labels before and after
    ranking,      \* the last call of GetStockRecommendations and its outcome
    workerPool,   \* the number of tokens in the channel StockHandler.workerPool
    requests,     \* per HTTP request: its position in AsyncOperation
    ingest        \* the run of the batch processor: feed, buffer and position

vars == <<stocks, countCache, countGroup, flights, pc, call, lastOp, event, results,
         ranking, workerPool, requests, ingest>>

-----------------------------------------------------------------------------
(* Bounds *)

\* rows the table holds at most
MaxRows == 2

\* Classify calls made on one event at most
MaxClassify == 2

\* the most items the feed of the batch processor holds
MaxItems == 3

\* the largest size threshold of the batch processor, and the longest batch
\* handed to ClassifyBatch
MaxBatchSize == 3

-----------------------------------------------------------------------------
(* Strings *)

\* strings.Contains
Contains(s, sub) ==
    \E i \in 1..(Len(s) + 1 - Len(sub)) : SubSeq(s, i, i + Len(sub) - 1) = sub

HasPrefix(s, sub) == Len(sub) <= Len(s) /\ SubSeq(s, 1, Len(sub)) = sub

HasSuffix(s, sub) ==
    Len(sub) <= Len(s) /\ SubSeq(s, Len(s) - Len(sub) + 1, Len(s)) = sub

Range(seq) == {seq[i] : i \in 1..Len(seq)}

\* the byte order of the characters the model's strings use
Alphabet == " $+-.0123456789ABCDEFGHIJKLMNOPQRSTUVWXYZabcdefghijklmnopqrstuvwxyz"

CharRank(c) == CHOOSE i \in 1..Len(Alphabet) : SubSeq(Alphabet, i, i) = c

RECURSIVE StrLess(_, _)
StrLess(a, b) ==
    IF Len(b) = 0 THEN FALSE
    ELSE IF Len(a) = 0 THEN TRUE
    ELSE LET ca == SubSeq(a, 1, 1)
             cb == SubSeq(b, 1, 1)
         IN  IF ca = cb THEN StrLess(SubSeq(a, 2, Len(a)), SubSeq(b, 2, Len(b)))
             ELSE CharRank(ca) < CharRank(cb)

Upper == "ABCDEFGHIJKLMNOPQRSTUVWXYZ"
Lower == "abcdefghijklmnopqrstuvwxyz"

LowerChar(c) ==
    IF \E i \in 1..Len(Upper) : SubSeq(Upper, i, i) = c
    THEN LET i == CHOOSE j \in 1..Len(Upper) : SubSeq(Upper, j, j) = c
         IN  SubSeq(Lower, i, i)
    ELSE c

\* strings.ToLower
RECURSIVE ToLower(_)
ToLower(s) ==
    IF Len(s) = 0 THEN s
    ELSE LowerChar(SubSeq(s, 1, 1)) \o ToLower(SubSeq(s, 2, Len(s)))

-----------------------------------------------------------------------------
(* domain.Filter and the filter translator *)

\* domain.Filter.Value is an interface{}: a string, a list of strings
\* ([]string, or []interface{} holding only strings), a list holding a
\* non-string ("mixed"), or a value of another type.
StrVal(s) == [t |-> "str", s |-> s, a |-> <<>>]
ArrVal(a) == [t |-> "arr", s |-> "", a |-> a]
MixedVal == [t |-> "mixed", s |-> "", a |-> <<>>]

Entry(field, value, mode) == [field |-> field, value |-> value, matchMode |-> mode]

\* domain.Filters is a Go map: the entries a caller inserted, keyed by field
FilterFields(entries) == {entries[i].field : i \in 1..Len(entries)}

FiltersMap(entries) ==
    [f \in FilterFields(entries) |->
        LET i == CHOOSE j \in 1..Len(entries) : entries[j].field = f
        IN  [Value |-> entries[i].value, MatchMode |-> entries[i].matchMode]]

\* the field names in the byte order encoding/json sorts map keys by
FieldOrder == <<"bogus", "classifications", "company", "ticker", "time">>

FieldRank(f) == CHOOSE i \in 1..Len(FieldOrder) : FieldOrder[i] = f

RECURSIVE SortedFields(_)
SortedFields(fs) ==
    IF fs = {} THEN <<>>
    ELSE LET f == CHOOSE x \in fs : \A y \in fs : FieldRank(x) <= FieldRank(y)
         IN  <<f>> \o SortedFields(fs \ {f})

\* json.Marshal of one Filter: {"value":...,"matchMode":...}; a []string and
\* a []interface{} of strings marshal to the same JSON array
MarshalFilter(f) == <<f.Value.t, f.Value.s, f.Value.a, f.MatchMode>>

\* getCacheKey: sha256 of json.Marshal(filters); encoding/json writes a map's
\* keys sorted, and the digest is taken to be injective on the serializations
getCacheKey(entries) ==
    LET m == FiltersMap(entries)
        order == SortedFields(DOMAIN m)
    IN  [i \in 1..Len(order) |-> <<order[i], MarshalFilter(m[order[i]])>>]

ArrayModes == {"equals", "contains", "contained", "overlap",
               "notEquals", "notContains", "notContained", "notOverlap"}

ScalarModes == {"equals", "contains", "startsWith", "endsWith",
                "greaterThan", "lessThan"}

NoClause == [field |-> "", op |-> "", s |-> "", a |-> <<>>, typed |-> TRUE]

\* the earlier applyFilter: an unknown match mode adds no condition and no error
applyFilterSkipping(field, filter) ==
    IF filter.MatchMode \in ScalarModes
    THEN [err |-> "", skip |-> FALSE,
          clause |-> [field |-> field, op |-> filter.MatchMode, s |-> filter.Value.s,
                      a |-> <<>>, typed |-> filter.Value.t = "str"]]
    ELSE [err |-> "", skip |-> TRUE, clause |-> NoClause]

\* applyFilter: the condition a filter adds to the query, or an error
applyFilter(field, filter) ==
    IF field = "classifications"
    THEN IF filter.Value.t \in {"mixed", "num"}
         THEN [err |-> "invalid value type", skip |-> FALSE, clause |-> NoClause]
         ELSE LET arr == IF filter.Value.t = "str" THEN <<filter.Value.s>>
                         ELSE filter.Value.a
              IN  IF filter.MatchMode \in ArrayModes
                  THEN [err |-> "", skip |-> FALSE,
                        clause |-> [field |-> field, op |-> filter.MatchMode,
                                    s |-> "", a |-> arr, typed |-> TRUE]]
                  ELSE [err |-> "unsupported match mode", skip |-> FALSE,
                        clause |-> NoClause]
    ELSE IF filter.MatchMode \in ScalarModes
         THEN [err |-> "", skip |-> FALSE,
               clause |-> [field |-> field, op |-> filter.MatchMode,
                           s |-> filter.Value.s, a |-> <<>>,
                           typed |-> filter.Value.t = "str"]]
         ELSE [err |-> "unsupported match mode", skip |-> FALSE, clause |-> NoClause]

\* the loop "for field, filter := range filters": the fields are visited in
\* the order `order` (Go leaves a map's iteration order open); the first
\* error ends the loop
RECURSIVE applyFilters(_, _, _)
applyFilters(m, order, clauses) ==
    IF order = <<>> THEN [err |-> "", clauses |-> clauses]
    ELSE LET r == applyFilter(order[1], m[order[1]])
         IN  IF r.err # "" THEN [err |-> r.err, clauses |-> <<>>]
             ELSE applyFilters(m, Tail(order),
                               IF r.skip THEN clauses ELSE Append(clauses, r.clause))

Orders(S) == {o \in [1..Cardinality(S) -> S] : Range(o) = S}

-----------------------------------------------------------------------------
(* The storage collaborator: PostgreSQL executing the built query *)

\* the columns of table "stocks" the model keeps; "time" is kept as the rank
\* of the row in insertion order
Columns == {"ticker", "company", "classifications", "time"}

Column(row, field) == IF field = "ticker" THEN row.Ticker ELSE row.Company

\* the PostgreSQL array operators =, @>, <@ and && on text[]
ArrEq(a, b) == a = b
ArrContains(a, b) == Range(b) \subseteq Range(a)
\* @> written where && belongs
ArrOverlapAsContains(a, b) == Range(b) \subseteq Range(a)
ArrOverlap(a, b) == Range(a) \cap Range(b) # {}

\* whether a row satisfies one WHERE condition
Matches(row, c) ==
    IF c.field = "classifications"
    THEN CASE c.op = "equals" -> ArrEq(row.Classifications, c.a)
           [] c.op = "contains" -> ArrContains(row.Classifications, c.a)
           [] c.op = "contained" -> ArrContains(c.a, row.Classifications)
           [] c.op = "overlap" -> ArrOverlap(row.Classifications, c.a)
           [] c.op = "notEquals" -> ~ArrEq(row.Classifications, c.a)
           [] c.op = "notContains" -> ~ArrContains(row.Classifications, c.a)
           [] c.op = "notContained" -> ~ArrContains(c.a, row.Classifications)
           [] c.op = "notOverlap" -> ~ArrOverlap(row.Classifications, c.a)
    ELSE CASE c.op = "equals" -> Column(row, c.field) = c.s
           [] c.op = "contains" -> Contains(Column(row, c.field), c.s)
           [] c.op = "startsWith" -> HasPrefix(Column(row, c.field), c.s)
           [] c.op = "endsWith" -> HasSuffix(Column(row, c.field), c.s)
           [] c.op = "greaterThan" -> StrLess(c.s, Column(row, c.field))
           [] c.op = "lessThan" -> StrLess(Column(row, c.field), c.s)

\* a statement naming an unknown column, or comparing a text column with a
\* value that is no text, is refused by the database
Executable(clauses) ==
    \A i \in 1..Len(clauses) :
        /\ clauses[i].field \in Columns \ {"time"}
        /\ clauses[i].typed

\* the rows a query selects: soft-deleted rows are never selected (gorm.Model)
Selected(table, clauses) ==
    {i \in 1..Len(table) :
        /\ ~table[i].deleted
        /\ \A j \in 1..Len(clauses) : Matches(table[i], clauses[j])}

-----------------------------------------------------------------------------
(* domain.Stock and the writes of StockBDRepository *)

\* domain.Stock, with the fields the operations read
Stock(ticker, company, targetFrom, targetTo, action, ratingTo, labels) ==
    [Ticker |-> ticker, Company |-> company, TargetFrom |-> targetFrom,
     TargetTo |-> targetTo, Action |-> action, RatingTo |-> ratingTo,
     Classifications |-> labels]

\* no event is held in memory
NoEvent == Stock("", "", "", "", "", "", <<>>)

\* a write that leaves the label list as it is
BeforeCreateKeepsEmpty(s) == s

\* Stock.BeforeCreate and StringArray.Value: an empty label list is written
\* as {"Neutral"}
BeforeCreate(s) ==
    IF Len(s.Classifications) = 0
    THEN [s EXCEPT !.Classifications = <<"Neutral">>]
    ELSE s

Row(s) ==
    [Ticker |-> s.Ticker, Company |-> s.Company,
     Classifications |-> BeforeCreate(s).Classifications, deleted |-> FALSE]

-----------------------------------------------------------------------------
(* Requests and their outcomes *)

\* domain.PaginationParams
Pagination(page, pageSize, sortField, sortOrder) ==
    [Page |-> page, PageSize |-> pageSize, SortField |-> sortField,
     SortOrder |-> sortOrder]

NoErr == [msg |-> "", field |-> ""]
Err(msg, field) == [msg |-> msg, field |-> field]

\* the last sequential operation: its arguments, what it returned, and what
\* it did (whether it called the repository, how many statements it sent to
\* the database, whether it wrote to the count cache)
NoOp ==
    [op |-> "none", pg |-> Pagination(0, 0, "", 0), filters |-> <<>>,
     order |-> <<>>, rows |-> <<>>, nil |-> TRUE, total |-> 0, err |-> NoErr,
     repoFind |-> FALSE, repoCount |-> FALSE, queries |-> 0, cached |-> FALSE,
     status |-> 0, message |-> "", batch |-> <<>>]

\* no call of GetStockRecommendations was made: input and limit are the
\* arguments of the call, stocks is the caller's slice after the call, out
\* the recommendations it returned
NoRanking ==
    [status |-> "none", input |-> <<>>, limit |-> 0, stocks |-> <<>>,
     out |-> <<>>]

\* no run of the batch processor: feed is the pages the feed will serve,
\* open whether its last page comes with a further cursor, batchSize the
\* threshold, cursor the page to fetch next, buffer the batch
\* in memory; fetched and writes record the items fetched and the batches
\* written so far, fetches the number of fetches
NoIngest ==
    [status |-> "none", feed |-> <<>>, batchSize |-> 0, cursor |-> 0,
     open |-> FALSE, buffer |-> <<>>, fetched |-> <<>>, writes |-> <<>>,
     fetches |-> 0, err |-> ""]

\* the capacity of the channel workerPool
maxWorkers == 2

\* the HTTP requests: one more than the pool can serve at a time
Requests == 1..(maxWorkers + 1)

\* a request that has not reached AsyncOperation: pc is the position of the
\* handler, worker that of the goroutine it started, local the error the
\* goroutine got from operation(), chan the contents of resultChan, err the
\* error the call returned
NoRequest ==
    [pc |-> "idle", kind |-> "none", worker |-> "none", local |-> "",
     chan |-> <<>>, err |-> ""]

-----------------------------------------------------------------------------
(* StockBDRepository.Count, one step per access to shared state *)

Procs == {"c1", "c2", "c3"}

NoCall ==
    [filters |-> <<>>, key |-> <<>>, role |-> "none", flight |-> "none",
     ranQuery |-> FALSE, rivals |-> {}, doVal |-> 0, doErr |-> "",
     val |-> 0, err |-> "", ctxDone |-> FALSE]

\* the filter sets the concurrent callers pass: one set, in both insertion
\* orders
CountFilters ==
    { <<Entry("classifications", ArrVal(<<"Tech">>), "overlap"),
        Entry("ticker", StrVal("A"), "contains")>>,
      <<Entry("ticker", StrVal("A"), "contains"),
        Entry("classifications", ArrVal(<<"Tech">>), "overlap")>> }

\* the events other requests write meanwhile: one the filters select, one
\* they do not
CountStocks ==
    { Stock("AB", "Tech Group", "$10.00", "$12.00", "", "",
            <<"Tech", "Potential Growth">>),
      Stock("C", "Acme", "", "", "", "", <<>>) }

\* m with key k set to v (sync.Map.Store, and the map of singleflight.Group)
Put(m, k, v) == [x \in DOMAIN m \cup {k} |-> IF x = k THEN v ELSE m[x]]

Drop(m, k) == [x \in DOMAIN m \ {k} |-> m[x]]

\* whether the query function stores its result: only when the query succeeded
StoresAlways(err) == TRUE

Stores(err) == err = ""

\* Count is entered: cacheKey := getCacheKey(filters)
CountCall(p, f) ==
    /\ pc[p] = "idle"
    /\ pc' = [pc EXCEPT ![p] = "load"]
    /\ call' = [call EXCEPT ![p] = [NoCall EXCEPT !.filters = f,
                                                  !.key = getCacheKey(f)]]
    /\ UNCHANGED <<stocks, countCache, countGroup, flights, lastOp, event, results,
                 ranking, workerPool, requests, ingest>>

\* countCache.Load(cacheKey): a hit returns the cached count
CacheLoad(p) ==
    /\ pc[p] = "load"
    /\ IF call[p].key \in DOMAIN countCache
       THEN /\ pc' = [pc EXCEPT ![p] = "ret"]
            /\ call' = [call EXCEPT ![p].role = "hit",
                                    ![p].val = countCache[call[p].key].count]
       ELSE /\ pc' = [pc EXCEPT ![p] = "do"]
            /\ call' = call
    /\ UNCHANGED <<stocks, countCache, countGroup, flights, lastOp, event, results,
                 ranking, workerPool, requests, ingest>>

\* countGroup.Do(cacheKey, fn): the caller joins the call in flight for the
\* key, or registers a new one and runs fn itself
GroupDo(p) ==
    /\ pc[p] = "do"
    /\ IF call[p].key \in DOMAIN countGroup
       THEN /\ pc' = [pc EXCEPT ![p] = "wait"]
            /\ call' = [call EXCEPT ![p].role = "waiter",
                                    ![p].flight = countGroup[call[p].key]]
            /\ UNCHANGED <<flights, countGroup>>
       ELSE /\ pc' = [pc EXCEPT ![p] = "fn"]
            /\ call' = [call EXCEPT ![p].role = "leader", ![p].flight = p]
            /\ flights' = Put(flights, p, [val |-> 0, err |-> ""])
            /\ countGroup' = Put(countGroup, call[p].key, p)
    /\ UNCHANGED <<stocks, countCache, lastOp, event, results,
                 ranking, workerPool, requests, ingest>>

\* the callers that have missed the cache for the key of p and for which no
\* query has run yet, at the moment the query of p succeeds
Rivals(p) ==
    {q \in Procs \ {p} : pc[q] \in {"do", "wait"} /\ call[q].key = call[p].key}

\* fn, first half: the filters are applied and the count query is executed
\* on r.db.WithContext(ctx), ctx being the context of the caller that runs
\* fn; a filter error returns before any query, and the query fails when
\* that context is done or the storage fails
FnQuery(p, order, dbOk) ==
    /\ pc[p] = "fn"
    /\ LET m == FiltersMap(call[p].filters)
           q == applyFilters(m, order, <<>>)
       IN  /\ order \in Orders(DOMAIN m)
           /\ IF q.err # ""
              THEN /\ flights' = [flights EXCEPT ![p].err = q.err]
                   /\ call' = call
              ELSE IF call[p].ctxDone
                   THEN /\ flights' = [flights EXCEPT ![p].err = "context canceled"]
                        /\ call' = call
              ELSE IF dbOk /\ Executable(q.clauses)
                   THEN /\ flights' = [flights EXCEPT ![p].val =
                                          Cardinality(Selected(stocks, q.clauses))]
                        /\ call' = [call EXCEPT ![p].ranQuery = TRUE,
                                                ![p].rivals = Rivals(p)]
                   ELSE /\ flights' = [flights EXCEPT ![p].err = "storage"]
                        /\ call' = [call EXCEPT ![p].ranQuery = TRUE]
    /\ pc' = [pc EXCEPT ![p] = "store"]
    /\ UNCHANGED <<stocks, countCache, countGroup, lastOp, event, results,
                 ranking, workerPool, requests, ingest>>

\* fn, second half: if err == nil { countCache.Store(cacheKey, int(count)) };
\* `failed` records with the entry whether the query that wrote it had failed
FnStore(p) ==
    /\ pc[p] = "store"
    /\ IF Stores(flights[p].err)
       THEN countCache' = Put(countCache, call[p].key,
                              [count |-> flights[p].val,
                               failed |-> flights[p].err # ""])
       ELSE countCache' = countCache
    /\ pc' = [pc EXCEPT ![p] = "finish"]
    /\ UNCHANGED <<stocks, countGroup, flights, call, lastOp, event, results,
                 ranking, workerPool, requests, ingest>>

\* the tail of Count: "if err != nil { return 0, err }; return val.(int), nil"
CountResult(c) ==
    IF c.doErr # "" THEN [c EXCEPT !.val = 0, !.err = c.doErr]
    ELSE [c EXCEPT !.val = c.doVal, !.err = ""]

\* Do ends for the caller that ran fn: the key leaves the group, every
\* caller waiting on the call is handed fn's result, and Count returns
GroupDone(p) ==
    /\ pc[p] = "finish"
    /\ countGroup' = Drop(countGroup, call[p].key)
    /\ flights' = Drop(flights, p)
    /\ call' = [q \in Procs |->
                 IF q = p
                 THEN CountResult([call[p] EXCEPT !.doVal = flights[p].val,
                                                  !.doErr = flights[p].err])
                 ELSE IF pc[q] = "wait" /\ call[q].flight = p
                      THEN [call[q] EXCEPT !.doVal = flights[p].val,
                                           !.doErr = flights[p].err]
                      ELSE call[q]]
    /\ pc' = [q \in Procs |->
                 IF q = p THEN "ret"
                 ELSE IF pc[q] = "wait" /\ call[q].flight = p THEN "woken"
                      ELSE pc[q]]
    /\ UNCHANGED <<stocks, countCache, lastOp, event, results,
                 ranking, workerPool, requests, ingest>>

\* Do ends for a caller that waited on another caller's fn, and Count returns
WaitDone(p) ==
    /\ pc[p] = "woken"
    /\ call' = [call EXCEPT ![p] = CountResult(call[p])]
    /\ pc' = [pc EXCEPT ![p] = "ret"]
    /\ UNCHANGED <<stocks, countCache, countGroup, flights, lastOp, event, results,
                 ranking, workerPool, requests, ingest>>

\* the caller leaves Count; the callers it served no longer refer to its call
CountReturn(p) ==
    /\ pc[p] = "ret"
    /\ pc' = [pc EXCEPT ![p] = "idle"]
    /\ call' = [q \in Procs |->
                 IF q = p THEN NoCall
                 ELSE IF call[q].flight = p /\ pc[q] \in {"woken", "ret"}
                      THEN [call[q] EXCEPT !.flight = "none", !.rivals = @ \ {p}]
                      ELSE [call[q] EXCEPT !.rivals = @ \ {p}]]
    /\ UNCHANGED <<stocks, countCache, countGroup, flights, lastOp, event, results,
                 ranking, workerPool, requests, ingest>>

\* the context a caller passed to Count is cancelled while the call is under
\* way; neither the cache lookup nor Do looks at it
CtxCancel(p) ==
    /\ pc[p] \notin {"idle", "ret"}
    /\ ~call[p].ctxDone
    /\ call' = [call EXCEPT ![p].ctxDone = TRUE]
    /\ UNCHANGED <<stocks, countCache, countGroup, flights, pc, lastOp, event,
                   results, ranking, workerPool, requests, ingest>>

\* StockBDRepository.Create; it runs between the sequential operations
Create(s) ==
    /\ lastOp.op = "none"
    /\ Len(stocks) < MaxRows
    /\ stocks' = Append(stocks, Row(s))
    /\ UNCHANGED <<countCache, countGroup, flights, pc, call, lastOp, event, results,
                 ranking, workerPool, requests, ingest>>

\* StockBDRepository.Delete: gorm soft-deletes the row with that ID
Delete(id) ==
    /\ lastOp.op = "none"
    /\ id \in 1..Len(stocks)
    /\ ~stocks[id].deleted
    /\ stocks' = [stocks EXCEPT ![id].deleted = TRUE]
    /\ UNCHANGED <<countCache, countGroup, flights, pc, call, lastOp, event, results,
                 ranking, workerPool, requests, ingest>>

\* StockService.RegisterStock on the event in memory: a nil stock is refused,
\* any other is handed to the repository's Create
RegisterStock ==
    /\ event # NoEvent
    /\ Create(event)

InitCount ==
    /\ stocks = <<Row(Stock("AB", "Tech Group", "$10.00", "$12.00", "", "",
                             <<"Tech", "Potential Growth">>))>>
    /\ countCache = <<>>
    /\ countGroup = <<>>
    /\ flights = <<>>
    /\ pc = [p \in Procs |-> "idle"]
    /\ call = [p \in Procs |-> NoCall]
    /\ lastOp = NoOp
    /\ event = NoEvent
    /\ results = <<>>
    /\ ranking = NoRanking
    /\ workerPool = 0
    /\ requests = [r \in Requests |-> NoRequest]
    /\ ingest = NoIngest

NextCount ==
    \/ \E p \in Procs, f \in CountFilters : CountCall(p, f)
    \/ \E p \in Procs : CacheLoad(p)
    \/ \E p \in Procs : GroupDo(p)
    \/ \E p \in Procs : \E o \in Orders(FilterFields(call[p].filters)),
                               dbOk \in BOOLEAN : FnQuery(p, o, dbOk)
    \/ \E p \in Procs : FnStore(p)
    \/ \E p \in Procs : GroupDone(p)
    \/ \E p \in Procs : WaitDone(p)
    \/ \E p \in Procs : CountReturn(p)
    \/ \E s \in CountStocks : Create(s)

SpecCount == InitCount /\ [][NextCount]_vars

\* concurrent Count calls whose contexts may be cancelled, over a table that
\* does not change
NextCancel ==
    \/ \E p \in Procs, f \in CountFilters : CountCall(p, f)
    \/ \E p \in Procs : CacheLoad(p)
    \/ \E p \in Procs : GroupDo(p)
    \/ \E p \in Procs : \E o \in Orders(FilterFields(call[p].filters)),
                               dbOk \in BOOLEAN : FnQuery(p, o, dbOk)
    \/ \E p \in Procs : FnStore(p)
    \/ \E p \in Procs : GroupDone(p)
    \/ \E p \in Procs : WaitDone(p)
    \/ \E p \in Procs : CountReturn(p)
    \/ \E p \in Procs : CtxCancel(p)

SpecCancel == InitCount /\ [][NextCancel]_vars

-----------------------------------------------------------------------------
(* ClassificationService *)

Digits == "0123456789"

IsDigit(c) == \E i \in 1..Len(Digits) : SubSeq(Digits, i, i) = c

DigitVal(c) == (CHOOSE i \in 1..Len(Digits) : SubSeq(Digits, i, i) = c) - 1

AllDigits(s) == \A i \in 1..Len(s) : IsDigit(SubSeq(s, i, i))

RECURSIVE DigitsValue(_)
DigitsValue(s) ==
    IF Len(s) = 0 THEN 0
    ELSE DigitsValue(SubSeq(s, 1, Len(s) - 1)) * 10
             + DigitVal(SubSeq(s, Len(s), Len(s)))

RECURSIVE Pow10(_)
Pow10(n) == IF n = 0 THEN 1 ELSE 10 * Pow10(n - 1)

\* strings.ReplaceAll(priceStr, "$", "")
RECURSIVE StripDollar(_)
StripDollar(s) ==
    IF Len(s) = 0 THEN s
    ELSE (IF SubSeq(s, 1, 1) = "$" THEN "" ELSE SubSeq(s, 1, 1))
             \o StripDollar(SubSeq(s, 2, Len(s)))

\* strconv.ParseFloat on decimal numerals: an optional sign, digits, at most
\* one point, at least one digit; anything else is a syntax error. The value
\* is kept as the exact fraction num/den. (Exponents, hexadecimal numerals,
\* underscores, "inf" and "nan" do not occur in the prices of the model.)
ParseFloat(s) ==
    LET signed == Len(s) > 0 /\ SubSeq(s, 1, 1) \in {"-", "+"}
        neg == Len(s) > 0 /\ SubSeq(s, 1, 1) = "-"
        body == IF signed THEN SubSeq(s, 2, Len(s)) ELSE s
        dots == {i \in 1..Len(body) : SubSeq(body, i, i) = "."}
        dot == IF dots = {} THEN Len(body) + 1
               ELSE CHOOSE i \in dots : \A j \in dots : i <= j
        int == SubSeq(body, 1, dot - 1)
        frac == SubSeq(body, dot + 1, Len(body))
        ok == /\ Cardinality(dots) <= 1
              /\ AllDigits(int) /\ AllDigits(frac)
              /\ Len(int) + Len(frac) > 0
    IN  IF ok
        THEN [ok |-> TRUE,
              num |-> (IF neg THEN -1 ELSE 1)
                          * (DigitsValue(int) * Pow10(Len(frac)) + DigitsValue(frac)),
              den |-> Pow10(Len(frac))]
        ELSE [ok |-> FALSE, num |-> 0, den |-> 1]

\* parsePrice
parsePrice(priceStr) == ParseFloat(StripDollar(priceStr))

\* the sector switch with the Tech case tried before the Biotech case
SectorLabelTechFirst(company) ==
    IF \E k \in {"Tech", "Software", "Group", "Systems", "Solutions"} :
           Contains(company, k)
    THEN "Tech"
    ELSE IF \E k \in {"Medical", "Therapeutics", "Biopharma", "Pharma"} :
                Contains(company, k)
    THEN "Biotech"
    ELSE IF \E k \in {"Financial", "Bank", "Banc", "Capital", "Insurance",
                      "Investments", "Advisors"} : Contains(company, k)
    THEN "Financial"
    ELSE IF \E k \in {"Energy", "Resources", "Petroleum", "Gas"} :
                Contains(company, k)
    THEN "Energy"
    ELSE "Other Sector"

\* 1. Classify by Sector: the first case of the switch that finds one of its
\* keywords in the company name, "Other Sector" when none does
SectorLabel(company) ==
    IF \E k \in {"Medical", "Therapeutics", "Biopharma", "Pharma"} :
           Contains(company, k)
    THEN "Biotech"
    ELSE IF \E k \in {"Tech", "Software", "Group", "Systems", "Solutions"} :
                Contains(company, k)
    THEN "Tech"
    ELSE IF \E k \in {"Financial", "Bank", "Banc", "Capital", "Insurance",
                      "Investments", "Advisors"} : Contains(company, k)
    THEN "Financial"
    ELSE IF \E k \in {"Energy", "Resources", "Petroleum", "Gas"} :
                Contains(company, k)
    THEN "Energy"
    ELSE "Other Sector"

\* the price step with the thresholds themselves included
PriceLabelsInclusive(targetFrom, targetTo) ==
    LET f == parsePrice(targetFrom)
        t == parsePrice(targetTo)
        diff == (t.num * f.den - f.num * t.den) * 100
    IN  IF f.ok /\ t.ok /\ f.num > 0
        THEN IF diff <= (-20) * f.num * t.den THEN {"High-Risk Speculative"}
             ELSE IF diff >= 10 * f.num * t.den THEN {"Potential Growth"}
             ELSE {}
        ELSE {}

\* 2. Classify by Target Price Change: changePct = (to - from) / from * 100
\* for from = f.num/f.den > 0 and to = t.num/t.den; changePct < -20 and
\* changePct > 10 are compared after multiplying by from * t.den > 0
PriceLabels(targetFrom, targetTo) ==
    LET f == parsePrice(targetFrom)
        t == parsePrice(targetTo)
        diff == (t.num * f.den - f.num * t.den) * 100
    IN  IF f.ok /\ t.ok /\ f.num > 0
        THEN IF diff < (-20) * f.num * t.den THEN {"High-Risk Speculative"}
             ELSE IF diff > 10 * f.num * t.den THEN {"Potential Growth"}
             ELSE {}
        ELSE {}

\* an analyst-action step that adds the label of every keyword it finds
ActionLabelsAll(action) ==
    LET actionLower == ToLower(action)
    IN  (IF Contains(actionLower, "upgraded") THEN {"Bullish Signal"} ELSE {})
            \cup (IF Contains(actionLower, "downgraded")
                  THEN {"Bearish Signal"} ELSE {})
            \cup (IF Contains(actionLower, "initiated")
                  THEN {"New Coverage"} ELSE {})

\* 3. Classify by Analyst Action
ActionLabels(action) ==
    LET actionLower == ToLower(action)
    IN  IF Contains(actionLower, "upgraded") THEN {"Bullish Signal"}
        ELSE IF Contains(actionLower, "downgraded") THEN {"Bearish Signal"}
        ELSE IF Contains(actionLower, "initiated") THEN {"New Coverage"}
        ELSE {}

\* 4. Classify by Rating
RatingLabels(ratingTo) ==
    IF ratingTo \in {"Buy", "Outperform", "Strong-Buy"} THEN {"Analyst Positive"}
    ELSE IF ratingTo \in {"Sell", "Underweight"} THEN {"Analyst Negative"}
    ELSE {}

\* the keys of the map `classifications` when the loop over them starts,
\* "Neutral" being added when the four steps added nothing
ClassifyLabels(stock) ==
    LET c == {SectorLabel(stock.Company)}
                 \cup PriceLabels(stock.TargetFrom, stock.TargetTo)
                 \cup ActionLabels(stock.Action)
                 \cup RatingLabels(stock.RatingTo)
    IN  IF c = {} THEN {"Neutral"} ELSE c

\* a Classify that appends to the labels the event already carries
KeepLabels(labels) == labels

\* "stock.Classifications = []string{}": the labels the event carried are
\* dropped
Reset(labels) == <<>>

\* ClassificationService.Classify on the event in memory: the map keys are
\* appended in the order in which "for key := range" yields them, which Go
\* leaves open
Classify ==
    /\ lastOp.op = "none"
    /\ event # NoEvent
    /\ Len(results) < MaxClassify
    /\ \E order \in Orders(ClassifyLabels(event)) :
           event' = [event EXCEPT !.Classifications = Reset(@) \o order]
    /\ results' = Append(results, [prior |-> Range(event.Classifications),
                                   labels |-> Range(event'.Classifications)])
    /\ UNCHANGED <<stocks, countCache, countGroup, flights, pc, call, lastOp,
                 ranking, workerPool, requests, ingest>>

\* the owner of the event assigns its exported field Classifications
Relabel(labels) ==
    /\ lastOp.op = "none"
    /\ event # NoEvent
    /\ Len(results) < MaxClassify
    /\ labels # event.Classifications
    /\ event' = [event EXCEPT !.Classifications = labels]
    /\ UNCHANGED <<stocks, countCache, countGroup, flights, pc, call, lastOp,
                   results,
                 ranking, workerPool, requests, ingest>>

\* the events classified: company names with and without a sector keyword,
\* with two keywords of different sectors, target prices that rise, fall,
\* stay, are missing, start from zero or below it, or change by exactly 10
\* and -20 percent, actions and ratings inside and
\* outside the recognised ones
Companies == {"Acme Pharma", "Tech Group", "First Bank", "Gas Medical",
              "Medical Systems", "Unknown Company"}
TargetPairs == {<<"$10.00", "$12.00">>, <<"$10.00", "$7.50">>,
                <<"$10.00", "$10.50">>, <<"", "">>, <<"$0.00", "$5.00">>,
                <<"$10.00", "$11.00">>, <<"$10.00", "$8.00">>,
                <<"-$10.00", "-$5.00">>}
Actions == {"upgraded by", "Downgraded by", "initiated by", ""}
Ratings == {"Buy", "Underweight", ""}

\* the labels an event may carry before Classify is called on it
PriorLabels == {<<>>, <<"Neutral">>, <<"Energy", "Bullish Signal">>}

InitClassify ==
    /\ stocks = <<>>
    /\ countCache = <<>>
    /\ countGroup = <<>>
    /\ flights = <<>>
    /\ pc = [p \in Procs |-> "idle"]
    /\ call = [p \in Procs |-> NoCall]
    /\ lastOp = NoOp
    /\ \E c \in Companies, t \in TargetPairs, a \in Actions, r \in Ratings,
          l \in PriorLabels : event = Stock("T", c, t[1], t[2], a, r, l)
    /\ results = <<>>
    /\ ranking = NoRanking
    /\ workerPool = 0
    /\ requests = [r \in Requests |-> NoRequest]
    /\ ingest = NoIngest

NextClassify ==
    \/ \E l \in PriorLabels : Relabel(l)
    \/ Classify

SpecClassify == InitClassify /\ [][NextClassify]_vars

-----------------------------------------------------------------------------
(* The sequential operations: StockService.Find over the repository *)

\* the field names of domain.Stock, lower-cased; the embedded gorm.Model
\* counts as one field named Model
StockFields ==
    {"model", "ticker", "targetfrom", "targetto", "company", "action",
     "brokerage", "ratingfrom", "ratingto", "time", "classifications"}

\* GormFieldValidator.IsValidField: no field of Stock has a column: tag, so
\* a name is valid when it equals a struct field name, ignoring case
IsValidField(field) == ToLower(field) \in StockFields

\* pagination after "Values by default for optional Pagination Fields"
Defaulted(pg) ==
    [pg EXCEPT !.SortField = IF pg.SortField = "" THEN "time" ELSE pg.SortField,
               !.SortOrder = IF pg.SortOrder = 0 THEN -1 ELSE pg.SortOrder]

\* the first filter field, in iteration order, that is not valid ("" if none)
RECURSIVE FirstInvalid(_)
FirstInvalid(order) ==
    IF order = <<>> THEN ""
    ELSE IF ~IsValidField(order[1]) THEN order[1]
    ELSE FirstInvalid(Tail(order))

\* the checks with the sort order examined before the sort field
ValidateOrderFirst(pg, order) ==
    LET d == Defaulted(pg)
    IN  IF pg.Page <= 0 THEN Err("invalid page", "")
        ELSE IF pg.PageSize <= 0 THEN Err("invalid page size", "")
        ELSE IF d.SortOrder # 1 /\ d.SortOrder # -1
             THEN Err("invalid sort order", "")
        ELSE IF d.SortField # "" /\ ~IsValidField(d.SortField)
             THEN Err("invalid sort field", d.SortField)
        ELSE IF FirstInvalid(order) # ""
             THEN Err("invalid filter field", FirstInvalid(order))
        ELSE NoErr

\* the checks without the one on the page size
ValidateNoPageSize(pg, order) ==
    LET d == Defaulted(pg)
    IN  IF pg.Page <= 0 THEN Err("invalid page", "")
        ELSE IF d.SortField # "" /\ ~IsValidField(d.SortField)
             THEN Err("invalid sort field", d.SortField)
        ELSE IF d.SortOrder # 1 /\ d.SortOrder # -1
             THEN Err("invalid sort order", "")
        ELSE IF FirstInvalid(order) # ""
             THEN Err("invalid filter field", FirstInvalid(order))
        ELSE NoErr

\* the checks of StockService.Find, in the order the code makes them; `order`
\* is the order in which "for field := range filters" visits the fields
Validate(pg, order) ==
    LET d == Defaulted(pg)
    IN  IF pg.Page <= 0 THEN Err("invalid page", "")
        ELSE IF pg.PageSize <= 0 THEN Err("invalid page size", "")
        ELSE IF d.SortField # "" /\ ~IsValidField(d.SortField)
             THEN Err("invalid sort field", d.SortField)
        ELSE IF d.SortOrder # 1 /\ d.SortOrder # -1
             THEN Err("invalid sort order", "")
        ELSE IF FirstInvalid(order) # ""
             THEN Err("invalid filter field", FirstInvalid(order))
        ELSE NoErr

\* ORDER BY: row i comes before row j; rows equal in the sort column are
\* kept in insertion order
RowBefore(table, i, j, field, desc) ==
    IF field \in {"ticker", "company"}
    THEN LET a == Column(table[i], field)
             b == Column(table[j], field)
         IN  IF a = b THEN i < j
             ELSE IF desc THEN StrLess(b, a) ELSE StrLess(a, b)
    ELSE IF field = "time" /\ desc THEN j < i ELSE i < j

RECURSIVE Ordered(_, _, _, _)
Ordered(table, ids, field, desc) ==
    IF ids = {} THEN <<>>
    ELSE LET f == CHOOSE i \in ids :
                      \A j \in ids \ {i} : RowBefore(table, i, j, field, desc)
         IN  <<f>> \o Ordered(table, ids \ {f}, field, desc)

\* applyOrder: no ORDER BY without a sort field; DESC only for SortOrder -1
applyOrder(table, ids, pg) ==
    IF pg.SortField # ""
    THEN Ordered(table, ids, pg.SortField, pg.SortOrder = -1)
    ELSE Ordered(table, ids, "time", FALSE)

\* applyPagination: OFFSET (Page-1)*PageSize LIMIT PageSize, when both are
\* positive
applyPagination(rows, pg) ==
    IF pg.Page > 0 /\ pg.PageSize > 0
    THEN SubSeq(rows, (pg.Page - 1) * pg.PageSize + 1,
                IF pg.Page * pg.PageSize < Len(rows) THEN pg.Page * pg.PageSize
                ELSE Len(rows))
    ELSE rows

\* StockBDRepository.Find: [rows, nil, err, queries], queries counting the
\* statements sent to the database
RepoFind(table, pg, entries, order, dbOk) ==
    LET q == applyFilters(FiltersMap(entries), order, <<>>)
    IN  IF q.err # ""
        THEN [rows |-> <<>>, nil |-> TRUE, err |-> Err(q.err, ""), queries |-> 0]
        ELSE IF dbOk /\ Executable(q.clauses) /\ pg.SortField \in Columns \cup {""}
             THEN [rows |-> applyPagination(
                                applyOrder(table, Selected(table, q.clauses), pg), pg),
                   nil |-> FALSE, err |-> NoErr, queries |-> 1]
             ELSE [rows |-> <<>>, nil |-> TRUE, err |-> Err("storage", ""),
                   queries |-> 1]

\* StockBDRepository.Count run by one caller alone: the cache lookup, then
\* Do running fn at once: [val, err, cache, queries]
RepoCount(cache, table, entries, order, dbOk) ==
    LET key == getCacheKey(entries)
        q == applyFilters(FiltersMap(entries), order, <<>>)
    IN  IF key \in DOMAIN cache
        THEN [val |-> cache[key].count, err |-> NoErr, cache |-> cache, queries |-> 0]
        ELSE IF q.err # ""
             THEN [val |-> 0, err |-> Err(q.err, ""), cache |-> cache, queries |-> 0]
             ELSE LET ok == dbOk /\ Executable(q.clauses)
                      e == IF ok THEN "" ELSE "storage"
                      n == IF ok THEN Cardinality(Selected(table, q.clauses)) ELSE 0
                  IN  [val |-> n, err |-> Err(e, ""),
                       cache |-> IF Stores(e)
                                 THEN Put(cache, key, [count |-> n, failed |-> e # ""])
                                 ELSE cache,
                       queries |-> 1]

\* StockService.Find: validation, then repo.Find, then repo.Count; what it
\* returns and does (ret) and the count cache it leaves (cache)
FindCall(pg, entries, order, findOk, countOk) ==
    LET v == Validate(pg, order)
        d == Defaulted(pg)
        f == RepoFind(stocks, d, entries, order, findOk)
        c == RepoCount(countCache, stocks, entries, order, countOk)
        in == [NoOp EXCEPT !.op = "Find", !.pg = pg, !.filters = entries,
                           !.order = order]
    IN  IF v.msg # ""
        THEN [ret |-> [in EXCEPT !.err = v], cache |-> countCache]
        ELSE IF f.err.msg # ""
        THEN [ret |-> [in EXCEPT !.err = f.err, !.repoFind = TRUE,
                                 !.queries = f.queries],
              cache |-> countCache]
        ELSE IF c.err.msg # ""
        THEN [ret |-> [in EXCEPT !.err = c.err, !.repoFind = TRUE,
                                 !.repoCount = TRUE,
                                 !.queries = f.queries + c.queries],
              cache |-> c.cache]
        ELSE [ret |-> [in EXCEPT !.rows = f.rows, !.nil = FALSE,
                                 !.total = c.val, !.repoFind = TRUE,
                                 !.repoCount = TRUE,
                                 !.queries = f.queries + c.queries,
                                 !.cached = c.cache # countCache],
              cache |-> c.cache]

\* StockService.Find called directly
ServiceFind(pg, entries, order, findOk, countOk) ==
    /\ lastOp.op = "none"
    /\ order \in Orders(FilterFields(entries))
    /\ lastOp' = FindCall(pg, entries, order, findOk, countOk).ret
    /\ countCache' = FindCall(pg, entries, order, findOk, countOk).cache
    /\ UNCHANGED <<stocks, countGroup, flights, pc, call, event, results,
                   ranking, workerPool, requests, ingest>>

\* the response of FindStocks to what AsyncManyOperation returned
Respond(err) ==
    IF err # ""
    THEN [status |-> 500, message |-> "Failed to retrieve stocks"]
    ELSE [status |-> 200, message |-> ""]

\* how the AsyncManyOperation of a request can end
AsyncOutcomes ==
    {"result", "server busy", "operation timeout", "client disconnected"}

\* StockHandler.FindStocks for a request whose query and body bind: the call
\* of StockService.Find under AsyncManyOperation, then the response. With a
\* busy pool Find is not called; after a timeout or a disconnect Find still
\* runs to its end in its goroutine and its result is dropped.
FindStocks(pg, entries, order, findOk, countOk, async) ==
    LET find == FindCall(pg, entries, order, findOk, countOk)
        skipped == [NoOp EXCEPT !.pg = pg, !.filters = entries,
                                !.order = order]
        ret == IF async = "server busy" THEN skipped ELSE find.ret
        err == IF async = "result" THEN ret.err ELSE Err(async, "")
    IN  /\ lastOp.op = "none"
        /\ order \in Orders(FilterFields(entries))
        /\ lastOp' = [ret EXCEPT
               !.op = "FindStocks",
               !.err = err,
               !.rows = IF async = "result" THEN ret.rows ELSE <<>>,
               !.nil = IF async = "result" THEN ret.nil ELSE TRUE,
               !.total = IF async = "result" THEN ret.total ELSE 0,
               !.status = Respond(err.msg).status,
               !.message = Respond(err.msg).message]
        /\ countCache' = IF async = "server busy" THEN countCache
                         ELSE find.cache
        /\ UNCHANGED <<stocks, countGroup, flights, pc, call, event, results,
                       ranking, workerPool, requests, ingest>>

\* StockBDRepository.Find called directly
DirectFind(pg, entries, order, dbOk) ==
    LET f == RepoFind(stocks, pg, entries, order, dbOk)
    IN  /\ lastOp.op = "none"
        /\ order \in Orders(FilterFields(entries))
        /\ lastOp' = [NoOp EXCEPT !.op = "repo.Find", !.pg = pg, !.filters = entries,
                                  !.order = order, !.rows = f.rows, !.nil = f.nil,
                                  !.err = f.err, !.repoFind = TRUE,
                                  !.queries = f.queries]
        /\ UNCHANGED <<stocks, countCache, countGroup, flights, pc, call, event, results,
                 ranking, workerPool, requests, ingest>>

\* StockBDRepository.Count called directly
DirectCount(entries, order, dbOk) ==
    LET c == RepoCount(countCache, stocks, entries, order, dbOk)
    IN  /\ lastOp.op = "none"
        /\ order \in Orders(FilterFields(entries))
        /\ lastOp' = [NoOp EXCEPT !.op = "repo.Count", !.filters = entries,
                                  !.order = order, !.total = c.val, !.err = c.err,
                                  !.repoCount = TRUE, !.queries = c.queries,
                                  !.cached = c.cache # countCache]
        /\ countCache' = c.cache
        /\ UNCHANGED <<stocks, countGroup, flights, pc, call, event, results,
                 ranking, workerPool, requests, ingest>>

\* the operation has returned to its caller; the next one may start
Return ==
    /\ lastOp.op # "none"
    /\ lastOp' = NoOp
    /\ UNCHANGED <<stocks, countCache, countGroup, flights, pc, call, event, results,
                 ranking, workerPool, requests, ingest>>

Pages == {0, 1}
PageSizes == {0, 1}
SortFields == {"", "ticker", "bogus"}
SortOrders == {0, 1, 2}

\* the two queries of a Find both succeed, or the first fails, or the second
DbOutcomes == {<<TRUE, TRUE>>, <<FALSE, TRUE>>, <<TRUE, FALSE>>}

\* the filter sets of the requests: none, one and two valid filters, an
\* unknown field, and match modes outside the vocabulary of the field, alone
\* and next to a valid filter
FindFilters ==
    { <<>>,
      <<Entry("ticker", StrVal("A"), "startsWith"),
        Entry("classifications", StrVal("Neutral"), "notContains")>>,
      <<Entry("bogus", StrVal("x"), "equals"),
        Entry("ticker", StrVal("A"), "contains")>>,
      <<Entry("classifications", ArrVal(<<"Tech">>), "startsWith")>>,
      <<Entry("ticker", StrVal("A"), "overlap"),
        Entry("classifications", ArrVal(<<"Tech">>), "overlap")>>,
      <<Entry("classifications", MixedVal, "overlap")>> }

InitFind ==
    /\ stocks = <<>>
    /\ countCache = <<>>
    /\ countGroup = <<>>
    /\ flights = <<>>
    /\ pc = [p \in Procs |-> "idle"]
    /\ call = [p \in Procs |-> NoCall]
    /\ lastOp = NoOp
    /\ event = NoEvent
    /\ results = <<>>
    /\ ranking = NoRanking
    /\ workerPool = 0
    /\ requests = [r \in Requests |-> NoRequest]
    /\ ingest = NoIngest

NextFind ==
    \/ \E page \in Pages, size \in PageSizes, sf \in SortFields, so \in SortOrders,
          f \in FindFilters, db \in DbOutcomes :
          \E o \in Orders(FilterFields(f)) :
              ServiceFind(Pagination(page, size, sf, so), f, o, db[1], db[2])
    \/ \E f \in FindFilters, dbOk \in BOOLEAN :
          \E o \in Orders(FilterFields(f)) :
              DirectFind(Pagination(1, 1, "ticker", 1), f, o, dbOk)
    \/ \E f \in FindFilters, dbOk \in BOOLEAN :
          \E o \in Orders(FilterFields(f)) : DirectCount(f, o, dbOk)
    \/ \E s \in CountStocks : Create(s)
    \/ Return

SpecFind == InitFind /\ [][NextFind]_vars

\* the requests to GET /stocks, over a table that holds a row
NextHandler ==
    \/ \E page \in Pages, size \in PageSizes, sf \in SortFields, so \in SortOrders,
          f \in FindFilters, db \in DbOutcomes, async \in AsyncOutcomes :
          \E o \in Orders(FilterFields(f)) :
              FindStocks(Pagination(page, size, sf, so), f, o, db[1], db[2],
                         async)
    \/ Return

SpecHandler == InitCount /\ [][NextHandler]_vars

-----------------------------------------------------------------------------
(* Classified events stored and queried by their labels *)

\* the next event is decoded into memory, not yet classified
NewEvent(e) ==
    /\ lastOp.op = "none"
    /\ e # event
    /\ event' = e
    /\ results' = <<>>
    /\ UNCHANGED <<stocks, countCache, countGroup, flights, pc, call, lastOp,
                 ranking, workerPool, requests, ingest>>

FilterEvents ==
    { Stock("AB", "Tech Group", "$10.00", "$12.00", "", "", <<>>),
      Stock("C", "Acme", "", "", "", "", <<>>) }

\* the label lists of the classifications filters
LabelLists ==
    { <<>>, <<"Tech">>, <<"Neutral">>,
      <<"Tech", "Potential Growth">>, <<"Potential Growth", "Tech">>,
      <<"Bullish Signal", "Tech">> }

InitFilter ==
    /\ stocks = <<>>
    /\ countCache = <<>>
    /\ countGroup = <<>>
    /\ flights = <<>>
    /\ pc = [p \in Procs |-> "idle"]
    /\ call = [p \in Procs |-> NoCall]
    /\ lastOp = NoOp
    /\ event = NoEvent
    /\ results = <<>>
    /\ ranking = NoRanking
    /\ workerPool = 0
    /\ requests = [r \in Requests |-> NoRequest]
    /\ ingest = NoIngest

NextFilter ==
    \/ \E e \in FilterEvents : NewEvent(e)
    \/ Classify
    \/ RegisterStock
    \/ \E a \in LabelLists, m \in ArrayModes :
          DirectFind(Pagination(0, 0, "", 0),
                     <<Entry("classifications", ArrVal(a), m)>>,
                     <<"classifications">>, TRUE)
    \/ \E id \in 1..MaxRows : Delete(id)
    \/ Return

SpecFilter == InitFilter /\ [][NextFilter]_vars

-----------------------------------------------------------------------------
(* Claims about the count cache *)

\* C1 (as claimed): of the concurrent Count calls that missed the cache for
\* one key, at most one runs the storage query, and all of them return the
\* same result: a caller that had already missed the cache when the query
\* of another caller succeeded never runs the query itself, and returns what
\* that caller returns.
C1_OneQueryPerKey ==
    \A p \in Procs : \A q \in call[p].rivals :
        /\ ~call[q].ranQuery
        /\ pc[p] = "ret" /\ pc[q] = "ret" =>
               call[p].val = call[q].val /\ call[p].err = call[q].err

\* C2: a failed count query writes nothing to the cache, every caller served
\* by the failed call returns count 0 with its error, and what a later Count
\* reads from the cache is never the result of a failed query.
C2_FailureNotCached ==
    /\ \A k \in DOMAIN countCache : ~countCache[k].failed
    /\ \A p \in Procs :
           pc[p] = "ret" /\ call[p].role # "hit" /\ call[p].doErr # "" =>
               call[p].val = 0 /\ call[p].err = call[p].doErr
    /\ \A p \in Procs : \A q \in Procs :
           /\ pc[p] = "ret" /\ call[p].role = "leader"
           /\ pc[q] \in {"woken", "ret"} /\ call[q].role = "waiter"
           /\ call[q].flight = p
           => call[q].doErr = call[p].doErr
    /\ \A p \in Procs : call[p].role = "hit" => call[p].err = ""

\* a caller that waited on a failed query has returned (0, error), the
\* caller that ran it too, and the key is not cached
C2_Witness ==
    \E p \in Procs : \E q \in Procs \ {p} :
        /\ pc[p] = "ret" /\ call[p].role = "leader" /\ call[p].err = "storage"
        /\ pc[q] = "ret" /\ call[q].role = "waiter" /\ call[q].flight = p
        /\ call[q].err = "storage" /\ call[q].val = 0
        /\ call[p].key \notin DOMAIN countCache

\* C3 (as claimed): a cache entry, once written, is never removed and never
\* overwritten with a different count.
C3_EntryNeverChanges ==
    [][\A k \in DOMAIN countCache :
          k \in DOMAIN countCache' /\ countCache'[k].count = countCache[k].count]_vars

-----------------------------------------------------------------------------
(* Claims about StockService.Find and the filter translator *)

\* the defects of a request, read from the request alone
PageBad(pg) == pg.Page <= 0
PageSizeBad(pg) == pg.PageSize <= 0
SortOrderBad(pg) == pg.SortOrder \notin {0, 1, -1}
SortFieldBad(pg) == pg.SortField # "" /\ ~IsValidField(pg.SortField)
BadFilterFields(entries) == {f \in FilterFields(entries) : ~IsValidField(f)}

Rejected(pg, entries) ==
    \/ PageBad(pg) \/ PageSizeBad(pg) \/ SortOrderBad(pg) \/ SortFieldBad(pg)
    \/ BadFilterFields(entries) # {}

\* C4: a Find whose request has one of the five defects returns
\* (nil, 0, error) without calling the repository's Find or Count (no
\* statement reaches the database, the count cache is not written); an
\* "invalid sort field" error names the sort field of the request and an
\* "invalid filter field" error names one of its unknown filter fields; and
\* only a request with one of the defects is turned away before the
\* repository.
C4_RejectionContract ==
    lastOp.op = "Find" =>
        /\ Rejected(lastOp.pg, lastOp.filters) =>
               /\ lastOp.nil /\ lastOp.rows = <<>> /\ lastOp.total = 0
               /\ lastOp.err.msg \in {"invalid page", "invalid page size",
                                      "invalid sort order", "invalid sort field",
                                      "invalid filter field"}
               /\ ~lastOp.repoFind /\ ~lastOp.repoCount
               /\ lastOp.queries = 0 /\ ~lastOp.cached
        /\ lastOp.err.msg = "invalid sort field" =>
               SortFieldBad(lastOp.pg) /\ lastOp.err.field = lastOp.pg.SortField
        /\ lastOp.err.msg = "invalid filter field" =>
               lastOp.err.field \in BadFilterFields(lastOp.filters)
        /\ ~Rejected(lastOp.pg, lastOp.filters) => lastOp.repoFind

\* a Find over a non-empty table was turned away for the unknown filter
\* field "bogus", which the error names, the rest of the request being sound
C4_Witness ==
    /\ lastOp.op = "Find" /\ Len(stocks) > 0
    /\ lastOp.pg.Page = 1 /\ lastOp.pg.PageSize = 1
    /\ ~SortFieldBad(lastOp.pg) /\ ~SortOrderBad(lastOp.pg)
    /\ lastOp.err = Err("invalid filter field", "bogus")
    /\ lastOp.nil /\ lastOp.total = 0 /\ ~lastOp.repoFind /\ ~lastOp.repoCount

\* C5 (as claimed): Find returns the error of the first failing check in the
\* order page, page size, sort order, sort field, filter fields; a request
\* with both an out-of-range sort order and an unknown sort field gets the
\* sort-order error.
C5_SortOrderBeforeSortField ==
    lastOp.op = "Find" =>
        LET pg == lastOp.pg
        IN  /\ PageBad(pg) => lastOp.err.msg = "invalid page"
            /\ ~PageBad(pg) /\ PageSizeBad(pg) => lastOp.err.msg = "invalid page size"
            /\ ~PageBad(pg) /\ ~PageSizeBad(pg) /\ SortOrderBad(pg) =>
                   lastOp.err.msg = "invalid sort order"
            /\ ~PageBad(pg) /\ ~PageSizeBad(pg) /\ ~SortOrderBad(pg)
                 /\ SortFieldBad(pg) => lastOp.err.msg = "invalid sort field"
            /\ ~PageBad(pg) /\ ~PageSizeBad(pg) /\ ~SortOrderBad(pg)
                 /\ ~SortFieldBad(pg) /\ BadFilterFields(lastOp.filters) # {} =>
                   lastOp.err.msg = "invalid filter field"

\* C5 (amended): Find returns the error of the first failing check in the
\* order page, page size, sort field, sort order, filter fields; a request
\* with both an out-of-range sort order and an unknown sort field gets the
\* sort-field error.
C5_SortFieldBeforeSortOrder ==
    lastOp.op = "Find" =>
        LET pg == lastOp.pg
        IN  /\ PageBad(pg) => lastOp.err.msg = "invalid page"
            /\ ~PageBad(pg) /\ PageSizeBad(pg) => lastOp.err.msg = "invalid page size"
            /\ ~PageBad(pg) /\ ~PageSizeBad(pg) /\ SortFieldBad(pg) =>
                   lastOp.err = Err("invalid sort field", pg.SortField)
            /\ ~PageBad(pg) /\ ~PageSizeBad(pg) /\ ~SortFieldBad(pg)
                 /\ SortOrderBad(pg) => lastOp.err.msg = "invalid sort order"
            /\ ~PageBad(pg) /\ ~PageSizeBad(pg) /\ ~SortFieldBad(pg)
                 /\ ~SortOrderBad(pg) /\ BadFilterFields(lastOp.filters) # {} =>
                   lastOp.err.msg = "invalid filter field"

\* a Find with a sound page and page size, sort order 2 and sort field
\* "bogus" has returned the sort-field error
C5_Witness ==
    /\ lastOp.op = "Find"
    /\ ~PageBad(lastOp.pg) /\ ~PageSizeBad(lastOp.pg)
    /\ lastOp.pg.SortOrder = 2 /\ lastOp.pg.SortField = "bogus"
    /\ lastOp.err = Err("invalid sort field", "bogus")

\* a filter whose match mode is outside the vocabulary of its field
BadMode(e) ==
    IF e.field = "classifications" THEN e.matchMode \notin ArrayModes
    ELSE e.matchMode \notin ScalarModes

HasBadMode(entries) == \E i \in 1..Len(entries) : BadMode(entries[i])

\* C6: when a filter of the set carries a match mode outside the vocabulary
\* of its field, repository Find returns (nil, error) and repository Count
\* (0, error), the error coming from the translation of the filters and not
\* from the database; no statement is sent to the database, so no rows
\* selected by the other filters come back; the count cache is not written
\* and holds no entry for the set; and StockService.Find returns
\* (nil, 0, error).
C6_BadModeAborts ==
    lastOp.op # "none" /\ HasBadMode(lastOp.filters) =>
        /\ lastOp.err.msg # "" /\ lastOp.err.msg # "storage"
        /\ lastOp.nil /\ lastOp.rows = <<>> /\ lastOp.total = 0
        /\ lastOp.queries = 0
        /\ ~lastOp.cached
        /\ getCacheKey(lastOp.filters) \notin DOMAIN countCache

\* StockService.Find passed its own checks and was refused by the
\* repository for ticker/overlap, while the other filter of the set,
\* classifications overlap {Tech}, selects a stored event
C6_Witness ==
    /\ lastOp.op = "Find" /\ lastOp.repoFind
    /\ lastOp.err.msg = "unsupported match mode"
    /\ \E i \in 1..Len(lastOp.filters) :
           /\ ~BadMode(lastOp.filters[i])
           /\ lastOp.filters[i].field = "classifications"
           /\ \E r \in 1..Len(stocks) :
                  ArrOverlap(stocks[r].Classifications, lastOp.filters[i].value.a)
    /\ lastOp.nil /\ lastOp.total = 0 /\ lastOp.queries = 0

-----------------------------------------------------------------------------
(* Claims about the classifications filters *)

\* the rows that are stored and not deleted
Live == {i \in 1..Len(stocks) : ~stocks[i].deleted}

LabelSet(i) == Range(stocks[i].Classifications)

\* the last operation was a repository Find with one classifications filter
\* of that mode, and the database answered
FoundBy(mode) ==
    /\ lastOp.op = "repo.Find" /\ lastOp.err = NoErr
    /\ Len(lastOp.filters) = 1
    /\ lastOp.filters[1].field = "classifications"
    /\ lastOp.filters[1].matchMode = mode

\* the label set S of that filter
Asked == Range(lastOp.filters[1].value.a)

\* the rows a classifications filter of that mode and label list selects
SelectedBy(mode, a) ==
    Selected(stocks, <<applyFilter("classifications",
                                   [Value |-> ArrVal(a), MatchMode |-> mode]).clause>>)

\* C7: an overlap filter returns exactly the stored events whose label set
\* meets S, a notOverlap filter with the same S exactly the other stored
\* events; for every S each stored event is selected by exactly one of the
\* two.
C7_OverlapComplement ==
    /\ FoundBy("overlap") =>
           Range(lastOp.rows) = {i \in Live : LabelSet(i) \cap Asked # {}}
    /\ FoundBy("notOverlap") =>
           Range(lastOp.rows) = {i \in Live : LabelSet(i) \cap Asked = {}}
    /\ \A a \in LabelLists :
           /\ SelectedBy("overlap", a) \cap SelectedBy("notOverlap", a) = {}
           /\ SelectedBy("overlap", a) \cup SelectedBy("notOverlap", a) = Live

\* of two stored events a notOverlap filter returned the one that shares no
\* label with S and left out the one that shares one
C7_Witness ==
    /\ FoundBy("notOverlap")
    /\ \E i \in Live : \E j \in Live :
           /\ LabelSet(i) \cap Asked # {} /\ LabelSet(i) \ Asked # {}
           /\ LabelSet(j) \cap Asked = {}
           /\ Range(lastOp.rows) = {j}

\* C8 (as claimed): an equals filter returns exactly the stored events whose
\* label set equals S as a set, whatever the order of the stored labels and
\* of S, and a notEquals filter exactly the other stored events.
C8_EqualsIsSetEquality ==
    /\ FoundBy("equals") =>
           Range(lastOp.rows) = {i \in Live : LabelSet(i) = Asked}
    /\ FoundBy("notEquals") =>
           Range(lastOp.rows) = {i \in Live : LabelSet(i) # Asked}

-----------------------------------------------------------------------------
(* Claims about Classify *)

\* C9: every Classify call on an event whose other fields stay the same
\* leaves the same label set on it: the one the first call left, whichever
\* labels the event carried before each call.
C9_ClassifyIdempotent ==
    \A i \in 1..Len(results) : results[i].labels = results[1].labels

\* an event that carried labels Classify does not give it was classified,
\* then classified again as it stood, with the same labels both times
C9_Witness ==
    /\ Len(results) = 2
    /\ results[1].prior \ results[1].labels # {}
    /\ results[2].prior = results[1].labels
    /\ results[2].labels = results[1].labels
    /\ Range(event.Classifications) = results[1].labels

\* no rule applies to the event: no sector keyword in the company name, no
\* threshold crossed by the target price, no recognised action or rating
NoRule(stock) ==
    /\ SectorLabel(stock.Company) = "Other Sector"
    /\ PriceLabels(stock.TargetFrom, stock.TargetTo) = {}
    /\ ActionLabels(stock.Action) = {}
    /\ RatingLabels(stock.RatingTo) = {}

\* C10 (as claimed): Classify leaves exactly the label set {Neutral} on an
\* event to which no rule applies.
C10_NoRuleYieldsNeutral ==
    NoRule(event) => \A i \in 1..Len(results) : results[i].labels = {"Neutral"}

\* the keywords of a sector, and the sectors in the order of their priority
SectorKeywords(sector) ==
    CASE sector = "Biotech" -> {"Medical", "Therapeutics", "Biopharma", "Pharma"}
      [] sector = "Tech" -> {"Tech", "Software", "Group", "Systems", "Solutions"}
      [] sector = "Financial" -> {"Financial", "Bank", "Banc", "Capital",
                                  "Insurance", "Investments", "Advisors"}
      [] sector = "Energy" -> {"Energy", "Resources", "Petroleum", "Gas"}

SectorPriority == <<"Biotech", "Tech", "Financial", "Energy">>

Names(company, sector) == \E k \in SectorKeywords(sector) : Contains(company, k)

\* the sector of the first group, in priority order, that the name matches
FirstSector(company) ==
    IF \E i \in 1..Len(SectorPriority) : Names(company, SectorPriority[i])
    THEN SectorPriority[CHOOSE i \in 1..Len(SectorPriority) :
             /\ Names(company, SectorPriority[i])
             /\ \A j \in 1..(i - 1) : ~Names(company, SectorPriority[j])]
    ELSE "Other Sector"

\* C11: after Classify the label set holds exactly one of the five sector
\* labels: that of the first group, in the order Biotech, Tech, Financial,
\* Energy, with a keyword in the company name, Other Sector when there is
\* none.
C11_SectorPriority ==
    Len(results) > 0 =>
        results[Len(results)].labels
            \cap (Range(SectorPriority) \cup {"Other Sector"})
            = {FirstSector(event.Company)}

\* an event whose company name holds a Biotech and a Tech keyword was
\* classified Biotech and not Tech
C11_Witness ==
    /\ Len(results) > 0
    /\ Names(event.Company, "Biotech") /\ Names(event.Company, "Tech")
    /\ "Biotech" \in results[Len(results)].labels
    /\ "Tech" \notin results[Len(results)].labels

\* pct = (to - from) / from * 100 for from = f.num/f.den and to = t.num/t.den
\* is the fraction PctNum / PctDen, PctDen having the sign of from
PctNum(f, t) == (t.num * f.den - f.num * t.den) * 100

PctDen(f, t) == f.num * t.den

\* pct < k and pct > k
PctBelow(f, t, k) ==
    IF PctDen(f, t) > 0 THEN PctNum(f, t) < k * PctDen(f, t)
    ELSE PctNum(f, t) > k * PctDen(f, t)

PctAbove(f, t, k) ==
    IF PctDen(f, t) > 0 THEN PctNum(f, t) > k * PctDen(f, t)
    ELSE PctNum(f, t) < k * PctDen(f, t)

Momentum == {"High-Risk Speculative", "Potential Growth"}

\* the action label of each of the actions classified
ActionLabelOf == [a \in Actions |-> ActionLabels(a)]

\* the labels Classify leaves from the sector, the action and the rating
OtherSources(stock) ==
    {FirstSector(stock.Company)} \cup ActionLabelOf[stock.Action]
        \cup RatingLabels(stock.RatingTo)

-----------------------------------------------------------------------------
(* domain.Stock.GetUpside *)

\* strings.ReplaceAll(cleaned, ",", "")
RECURSIVE StripComma(_)
StripComma(s) ==
    IF Len(s) = 0 THEN s
    ELSE (IF SubSeq(s, 1, 1) = "," THEN "" ELSE SubSeq(s, 1, 1))
             \o StripComma(SubSeq(s, 2, Len(s)))

\* parseCurrencyToFloat: "$" and "," are removed before strconv.ParseFloat
parseCurrencyToFloat(currencyStr) ==
    ParseFloat(StripComma(StripDollar(currencyStr)))

Abs(n) == IF n < 0 THEN -n ELSE n

RECURSIVE GCD(_, _)
GCD(a, b) == IF b = 0 THEN a ELSE GCD(b, a % b)

\* float64 values are kept as exact fractions num/den in lowest terms with
\* den > 0 (the prices of the model are chosen so that the float64
\* computation of the source gives the same values)
Frac(num, den) ==
    LET g == GCD(Abs(num), Abs(den))
        sign == IF den < 0 THEN -1 ELSE 1
    IN  [num |-> (sign * num) \div g, den |-> (sign * den) \div g]

FracLess(a, b) == a.num * b.den < b.num * a.den

FracAdd(a, n) == [num |-> a.num + n * a.den, den |-> a.den]

FracTimes(a, n) == Frac(a.num * n, a.den)

\* calculateUpsidePotential: targetFrom is parsed first, then targetTo, then
\* from == 0 is refused; ((to - from) / from) * 100 otherwise
calculateUpsidePotential(targetFromStr, targetToStr) ==
    LET from == parseCurrencyToFloat(targetFromStr)
        to == parseCurrencyToFloat(targetToStr)
    IN  IF ~from.ok
        THEN [ok |-> FALSE, err |-> "targetFrom: formato de moneda invalido",
              value |-> Frac(0, 1)]
        ELSE IF ~to.ok
        THEN [ok |-> FALSE, err |-> "targetTo: formato de moneda invalido",
              value |-> Frac(0, 1)]
        ELSE IF from.num = 0
        THEN [ok |-> FALSE, err |-> "no se puede dividir por cero",
              value |-> Frac(0, 1)]
        ELSE [ok |-> TRUE, err |-> "",
              value |-> FracTimes(Frac(to.num * from.den - from.num * to.den,
                                       from.num * to.den), 100)]

\* Stock.GetUpside
GetUpside(s) == calculateUpsidePotential(s.TargetFrom, s.TargetTo)

-----------------------------------------------------------------------------
(* BestInvestmentsServiceImpl *)

\* minFloat that returns its first argument: the growth points without the cap
minFloatUncapped(a, b) == a

\* minFloat
minFloat(a, b) == IF FracLess(a, b) THEN a ELSE b

\* the switch on a classification in calculateScore
ClassificationPoints(classification) ==
    CASE classification = "Potential Growth" -> 30
      [] classification = "Bullish Signal" -> 25
      [] classification = "New Coverage" -> 20
      [] classification = "Analyst Positive" -> 15
      [] classification = "Tech" -> 10
      [] classification = "Biotech" -> 8
      [] OTHER -> 0

\* the loop of calculateScore over stock.Classifications: every element of
\* the slice adds its points
RECURSIVE SumPoints(_)
SumPoints(classifications) ==
    IF Len(classifications) = 0 THEN 0
    ELSE ClassificationPoints(Head(classifications))
             + SumPoints(Tail(classifications))

\* the switch on stock.RatingTo in calculateScore
RatingPoints(ratingTo) ==
    CASE ratingTo = "Strong-Buy" -> 40
      [] ratingTo = "Outperform" -> 30
      [] ratingTo = "Buy" -> 20
      [] OTHER -> 0

\* calculateScore; it panics when GetUpside returns an error, and is used
\* only on stocks for which it does not
calculateScore(stock) ==
    FracAdd(minFloat(FracTimes(GetUpside(stock).value, 2), Frac(100, 1)),
            SumPoints(stock.Classifications) + RatingPoints(stock.RatingTo))

\* calculateScore and getRationale panic on this stock
Panics(stock) == ~GetUpside(stock).ok

\* strconv.Itoa for n >= 0
RECURSIVE Itoa(_)
Itoa(n) ==
    IF n < 10 THEN SubSeq(Digits, n + 1, n + 1)
    ELSE Itoa(n \div 10) \o SubSeq(Digits, (n % 10) + 1, (n % 10) + 1)

\* strconv.FormatFloat(x, 'f', 1, 64): x rounded to one decimal, to the even
\* neighbour when it lies halfway
FormatFloat(x) ==
    LET n == Abs(x.num) * 10
        q == n \div x.den
        r == n % x.den
        tenths == IF 2 * r > x.den \/ (2 * r = x.den /\ q % 2 = 1)
                  THEN q + 1 ELSE q
    IN  (IF x.num < 0 THEN "-" ELSE "")
            \o Itoa(tenths \div 10) \o "." \o Itoa(tenths % 10)

\* the switch on a classification in getRationale: the reason it appends
ClassificationReason(classification) ==
    CASE classification = "Bullish Signal" -> <<"Recent upgrade">>
      [] classification = "New Coverage" -> <<"New coverage">>
      [] classification = "Tech" -> <<"Technology sector">>
      [] classification = "Biotech" -> <<"Biotechnology sector">>
      [] OTHER -> <<>>

\* the loop of getRationale over stock.Classifications, in slice order
RECURSIVE Reasons(_)
Reasons(classifications) ==
    IF Len(classifications) = 0 THEN <<>>
    ELSE ClassificationReason(Head(classifications))
             \o Reasons(Tail(classifications))

\* strings.Join(reasons, sep)
RECURSIVE Join(_, _)
Join(reasons, sep) ==
    IF Len(reasons) = 0 THEN ""
    ELSE IF Len(reasons) = 1 THEN reasons[1]
    ELSE reasons[1] \o sep \o Join(Tail(reasons), sep)

\* getRationale, on a stock for which GetUpside returns no error
getRationale(stock) ==
    LET upside == GetUpside(stock).value
        reasons ==
            (IF FracLess(Frac(10, 1), upside)
             THEN <<"Potential of " \o FormatFloat(upside) \o "%">>
             ELSE <<>>) \o Reasons(stock.Classifications)
    IN  IF Len(reasons) = 0 THEN "Solid fundamentals"
        ELSE Join(reasons, ", ")

\* domain.Recommendation as GetStockRecommendations fills it
Recommendation(position, stock) ==
    [Position |-> position, Ticker |-> stock.Ticker,
     Company |-> stock.Company, Score |-> calculateScore(stock),
     Rationale |-> getRationale(stock)]

IndexOrders(n) ==
    {p \in [1..n -> 1..n] : \A i, j \in 1..n : i # j => p[i] # p[j]}

\* sort.Slice with less(i, j) = score(i) < score(j): the ascending orders
SortedAscending(list) ==
    LET score == [i \in 1..Len(list) |-> calculateScore(list[i])]
    IN  {[i \in 1..Len(list) |-> list[p[i]]] : p \in
            {q \in IndexOrders(Len(list)) :
                \A i, j \in 1..Len(list) :
                    i < j => ~FracLess(score[q[j]], score[q[i]])}}

\* sort.Slice with less(i, j) = score(i) > score(j): the slice is permuted so
\* that no element is followed by one that less puts before it. sort.Slice
\* does not promise to keep equal elements in their order, so every such
\* permutation is an outcome.
Sorted(list) ==
    LET score == [i \in 1..Len(list) |-> calculateScore(list[i])]
    IN  {[i \in 1..Len(list) |-> list[p[i]]] : p \in
            {q \in IndexOrders(Len(list)) :
                \A i, j \in 1..Len(list) :
                    i < j => ~FracLess(score[q[i]], score[q[j]])}}

\* the limit taken one lower when it is within the slice
ClampShort(limit, n) ==
    IF limit > n THEN n ELSE IF limit > 0 THEN limit - 1 ELSE limit

\* if limit > len(stocks) { limit = len(stocks) }
Clamp(limit, n) == IF limit > n THEN n ELSE limit

\* GetStockRecommendations on the arguments held in ranking. sort.Slice
\* calls less on every element of a slice of two or more and on none of a
\* shorter one; the first calculateScore on a stock without upside panics,
\* make panics on a negative length, and the loop scores the first limit
\* stocks again. A panic unwinds the call: nothing is returned, and the order
\* in which it leaves the slice, which nothing reads afterwards, is not kept.
GetStockRecommendations ==
    /\ ranking.status = "called"
    /\ LET list == ranking.input
           n == Clamp(ranking.limit, Len(list))
       IN  IF Len(list) >= 2 /\ \E i \in 1..Len(list) : Panics(list[i])
           THEN ranking' = [ranking EXCEPT !.status = "panic"]
           ELSE \E sorted \in (IF Len(list) >= 2 THEN Sorted(list)
                               ELSE {list}) :
                    IF n < 0 \/ \E i \in 1..n : Panics(sorted[i])
                    THEN ranking' = [ranking EXCEPT !.status = "panic"]
                    ELSE ranking' =
                             [ranking EXCEPT
                                 !.status = "returned",
                                 !.stocks = sorted,
                                 !.out = [i \in 1..n |->
                                             Recommendation(i, sorted[i])]]
    /\ UNCHANGED <<stocks, countCache, countGroup, flights, pc, call, lastOp,
                   event, results, workerPool, requests, ingest>>

\* the longest list of stocks handed to GetStockRecommendations
MaxStocks == 3

\* the stocks of TestGetStockRecommendations, and stocks with equal scores,
\* with an upside above 50 and below 0, with a thousands separator, and with
\* targets that do not parse or a targetFrom of 0
RankStocks ==
    {Stock("AAPL", "Apple Inc.", "$100.00", "$115.00", "", "Strong-Buy",
           <<"Potential Growth", "Bullish Signal">>),
     Stock("TSLA", "Tesla Inc.", "$200.00", "$240.00", "", "Buy",
           <<"High-Risk Speculative">>),
     Stock("MSFT", "Microsoft Corp.", "$150.00", "$168.00", "", "Outperform",
           <<"Potential Growth", "New Coverage">>),
     Stock("IBM", "IBM Systems", "$1,000.00", "$1,100.00", "", "",
           <<"Tech", "Bullish Signal">>),
     Stock("ORCL", "Oracle Software", "$100.00", "$110.00", "", "",
           <<"Bullish Signal", "Tech">>),
     Stock("GE", "GE Energy", "$10.00", "$5.00", "", "Hold",
           <<"Energy", "Analyst Positive">>),
     Stock("MRNA", "Moderna Therapeutics", "$10.00", "$30.00", "", "Buy",
           <<"Potential Growth", "Biotech">>),
     Stock("XOM", "Exxon Petroleum", "$50.00", "$55.00", "", "",
           <<"Energy">>),
     Stock("BADF", "No Target From", "", "$5.00", "", "Buy", <<"Tech">>),
     Stock("BADT", "No Target To", "$5.00", "n/a", "", "Buy", <<"Tech">>),
     Stock("ZERO", "Zero Target From", "$0.00", "$5.00", "", "Buy",
           <<"Tech">>)}

\* the lists of up to MaxStocks different stocks
RankLists ==
    UNION {{l \in [1..n -> RankStocks] :
               \A i, j \in 1..n : i # j => l[i] # l[j]} : n \in 0..MaxStocks}

\* limit as the handler reads it from the query
Limits == {-1, 0, 2, 10}

InitRank ==
    /\ stocks = <<>>
    /\ countCache = <<>>
    /\ countGroup = <<>>
    /\ flights = <<>>
    /\ pc = [p \in Procs |-> "idle"]
    /\ call = [p \in Procs |-> NoCall]
    /\ lastOp = NoOp
    /\ event = NoEvent
    /\ results = <<>>
    /\ \E l \in RankLists, limit \in Limits :
           ranking = [NoRanking EXCEPT !.status = "called", !.input = l,
                                       !.limit = limit]
    /\ workerPool = 0
    /\ requests = [r \in Requests |-> NoRequest]
    /\ ingest = NoIngest

NextRank == GetStockRecommendations

SpecRank == InitRank /\ [][NextRank]_vars

\* the target prices of the events that are classified and then ranked:
\* plain ones on both sides of the 10 percent threshold, with a thousands
\* separator, with a targetFrom below zero and of zero, and missing ones
FreshTargets ==
    {<<"$10.00", "$12.00">>, <<"$10.00", "$11.00">>, <<"$10.00", "$7.50">>,
     <<"$1,000.00", "$1,200.00">>, <<"$1,000.00", "$1,050.00">>,
     <<"-$10.00", "-$12.00">>, <<"-$10.00", "-$5.00">>,
     <<"$0.00", "$5.00">>, <<"", "">>}

\* the caller asks for the recommendations of the event it has just
\* classified
Recommend ==
    /\ ranking.status = "none"
    /\ Len(results) > 0
    /\ ranking' = [NoRanking EXCEPT !.status = "called",
                                    !.input = <<event>>, !.limit = 1]
    /\ UNCHANGED <<stocks, countCache, countGroup, flights, pc, call, lastOp,
                   event, results, workerPool, requests, ingest>>

InitFresh ==
    /\ stocks = <<>>
    /\ countCache = <<>>
    /\ countGroup = <<>>
    /\ flights = <<>>
    /\ pc = [p \in Procs |-> "idle"]
    /\ call = [p \in Procs |-> NoCall]
    /\ lastOp = NoOp
    /\ \E c \in {"Tech Group", "Unknown Company"}, t \in FreshTargets,
          a \in {"upgraded by", ""}, r \in {"Buy", ""} :
           event = Stock("T", c, t[1], t[2], a, r, <<>>)
    /\ results = <<>>
    /\ ranking = NoRanking
    /\ workerPool = 0
    /\ requests = [r \in Requests |-> NoRequest]
    /\ ingest = NoIngest

NextFresh == Classify \/ Recommend \/ GetStockRecommendations

SpecFresh == InitFresh /\ [][NextFresh]_vars

-----------------------------------------------------------------------------
(* Claims about GetStockRecommendations *)

\* both targets of the stock parse and targetFrom is not 0
WellFormed(stock) ==
    LET from == parseCurrencyToFloat(stock.TargetFrom)
        to == parseCurrencyToFloat(stock.TargetTo)
    IN  from.ok /\ to.ok /\ from.num # 0

Min(a, b) == IF a < b THEN a ELSE b

\* the position in the input of the stock with this ticker
InputIndex(ticker) ==
    CHOOSE i \in 1..Len(ranking.input) : ranking.input[i].Ticker = ticker

FracEq(a, b) == a.num * b.den = b.num * a.den

C14_TopScoresDescending ==
    ranking.status = "returned" =>
        LET in == ranking.input
            out == ranking.out
            score == [i \in 1..Len(in) |-> calculateScore(in[i])]
            kept == {InputIndex(out[k].Ticker) : k \in 1..Len(out)}
        IN  /\ \A k \in 1..Len(out) :
                   /\ \E i \in 1..Len(in) : in[i].Ticker = out[k].Ticker
                   /\ FracEq(out[k].Score, score[InputIndex(out[k].Ticker)])
            /\ Cardinality(kept) = Len(out)
            /\ \A k \in 1..(Len(out) - 1) :
                   ~FracLess(out[k].Score, out[k + 1].Score)
            /\ \A i \in (1..Len(in)) \ kept : \A k \in 1..Len(out) :
                   ~FracLess(out[k].Score, score[i])
            /\ ([i \in 1..Len(in) |-> in[i].Ticker] = <<"AAPL", "TSLA", "MSFT">>
                    /\ ranking.limit = 2)
                   => /\ [k \in 1..Len(out) |-> out[k].Ticker] = <<"AAPL", "MSFT">>
                      /\ out[1].Score = Frac(125, 1)
                      /\ out[2].Score = Frac(104, 1)

\* the list of the test (scores 125, 60, 104) was ranked with limit 2
C14_Witness ==
    /\ ranking.status = "returned"
    /\ [i \in 1..Len(ranking.input) |-> ranking.input[i].Ticker]
           = <<"AAPL", "TSLA", "MSFT">>
    /\ ranking.limit = 2
    /\ Len(ranking.out) = 2
    /\ calculateScore(ranking.input[2]) = Frac(60, 1)

C16_NoHighRiskReturned ==
    ranking.status = "returned" =>
        \A k \in 1..Len(ranking.out) :
            "High-Risk Speculative" \notin
                Range(ranking.input[InputIndex(ranking.out[k].Ticker)]
                          .Classifications)

\* the points of the table of the claim
TablePoints ==
    [l \in {"Potential Growth", "Bullish Signal", "New Coverage",
            "Analyst Positive", "Tech", "Biotech"} |->
        CASE l = "Potential Growth" -> 30
          [] l = "Bullish Signal" -> 25
          [] l = "New Coverage" -> 20
          [] l = "Analyst Positive" -> 15
          [] l = "Tech" -> 10
          [] l = "Biotech" -> 8]

RECURSIVE TableSum(_)
TableSum(labels) ==
    IF Len(labels) = 0 THEN 0
    ELSE (IF Head(labels) \in DOMAIN TablePoints
          THEN TablePoints[Head(labels)] ELSE 0) + TableSum(Tail(labels))

RatingBonus(ratingTo) ==
    IF ratingTo = "Strong-Buy" THEN 40
    ELSE IF ratingTo = "Outperform" THEN 30
    ELSE IF ratingTo = "Buy" THEN 20
    ELSE 0

\* min(2 * upside, 100) + the points of the labels + the rating bonus, as
\* the fraction num / den with den > 0, for upside = u
ExpectedScore(stock, u) ==
    LET growth == IF 2 * u.num < 100 * u.den
                  THEN [num |-> 2 * u.num, den |-> u.den]
                  ELSE [num |-> 100, den |-> 1]
        bonus == TableSum(stock.Classifications) + RatingBonus(stock.RatingTo)
    IN  [num |-> growth.num + bonus * growth.den, den |-> growth.den]

\* C17: the score of a returned recommendation is min(2 * upside, 100) plus
\* the table points of each label of the event plus the rating bonus, with
\* no other cap and no lower bound.
C17_ScoreFormula ==
    ranking.status = "returned" =>
        \A k \in 1..Len(ranking.out) :
            LET stock == ranking.input[InputIndex(ranking.out[k].Ticker)]
            IN  FracEq(ranking.out[k].Score,
                       ExpectedScore(stock, GetUpside(stock).value))

\* a ranking returned an event with the growth points at their cap and a
\* total above 100, and an event with a score below 0
C17_Witness ==
    /\ ranking.status = "returned"
    /\ \E k \in 1..Len(ranking.out) :
           /\ ranking.out[k].Ticker = "MRNA"
           /\ ranking.out[k].Score = Frac(158, 1)
    /\ \E k \in 1..Len(ranking.out) :
           /\ ranking.out[k].Ticker = "GE"
           /\ ranking.out[k].Score = Frac(-85, 1)

\* the reasons in the order of the claim
ReasonOrder ==
    <<<<"Bullish Signal", "Recent upgrade">>,
      <<"New Coverage", "New coverage">>,
      <<"Tech", "Technology sector">>,
      <<"Biotech", "Biotechnology sector">>>>

RECURSIVE FixedReasons(_, _)
FixedReasons(labels, i) ==
    IF i > Len(ReasonOrder) THEN <<>>
    ELSE (IF ReasonOrder[i][1] \in labels THEN <<ReasonOrder[i][2]>>
          ELSE <<>>) \o FixedReasons(labels, i + 1)

\* C18: the rationale is 'Solid fundamentals' exactly when upside <= 10 and
\* none of Bullish Signal, New Coverage, Tech, Biotech is among the labels;
\* otherwise it is the applicable reasons joined by ', ' in the order
\* potential percentage, Recent upgrade, New coverage, Technology sector,
\* Biotechnology sector, whatever the order of the labels in the event.
C18_RationaleFixedOrder ==
    ranking.status = "returned" =>
        \A k \in 1..Len(ranking.out) :
            LET stock == ranking.input[InputIndex(ranking.out[k].Ticker)]
                u == GetUpside(stock).value
                labels == Range(stock.Classifications)
                reasons ==
                    (IF u.num > 10 * u.den
                     THEN <<"Potential of " \o FormatFloat(u) \o "%">>
                     ELSE <<>>) \o FixedReasons(labels, 1)
            IN  /\ ranking.out[k].Rationale = "Solid fundamentals"
                       <=> (u.num <= 10 * u.den
                            /\ labels \cap {"Bullish Signal", "New Coverage",
                                            "Tech", "Biotech"} = {})
                /\ ranking.out[k].Rationale # "Solid fundamentals"
                       => ranking.out[k].Rationale = Join(reasons, ", ")

\* C19: when an event of the input has a target that does not parse or a
\* targetFrom of 0, GetStockRecommendations fails and returns no list, for
\* every list length and every limit.
C19_MalformedAlwaysFails ==
    (/\ ranking.status # "called"
     /\ \E i \in 1..Len(ranking.input) : ~WellFormed(ranking.input[i]))
        => ranking.status = "panic" /\ ranking.out = <<>>

-----------------------------------------------------------------------------
(* AsyncOperation and AsyncManyOperation *)

\* a send on a channel that holds n tokens and has room for one more than
\* its capacity
HasRoomForOneMore(n) == n <= maxWorkers

\* case workerPool <- struct{}{}: the send can proceed when the channel,
\* made with capacity maxWorkers, holds fewer tokens than that
HasRoom(n) == n < maxWorkers

\* the outer select of AsyncOperation and AsyncManyOperation: when the send
\* on workerPool can proceed a token is put in the channel, the goroutine
\* that runs the operation is started and the caller goes on to the inner
\* select; otherwise the default case returns "server busy"
Enter(kind) ==
    IF HasRoom(workerPool)
    THEN [pool |-> workerPool + 1,
          request |-> [NoRequest EXCEPT !.pc = "waiting", !.kind = kind,
                                        !.worker = "running"]]
    ELSE [pool |-> workerPool,
          request |-> [NoRequest EXCEPT !.pc = "returned", !.kind = kind,
                                        !.err = "server busy"]]

\* the requests to a handler that calls AsyncOperation; the others are to
\* handlers that call AsyncManyOperation
SingleRequests == {1}

\* AsyncOperation is called for a request
AsyncOperation ==
    \E r \in SingleRequests :
        /\ requests[r].pc = "idle"
        /\ workerPool' = Enter("one").pool
        /\ requests' = [requests EXCEPT ![r] = Enter("one").request]
        /\ UNCHANGED <<stocks, countCache, countGroup, flights, pc, call,
                       lastOp, event, results, ranking, ingest>>

\* AsyncManyOperation is called for a request
AsyncManyOperation ==
    \E r \in Requests \ SingleRequests :
        /\ requests[r].pc = "idle"
        /\ workerPool' = Enter("many").pool
        /\ requests' = [requests EXCEPT ![r] = Enter("many").request]
        /\ UNCHANGED <<stocks, countCache, countGroup, flights, pc, call,
                       lastOp, event, results, ranking, ingest>>

\* the errors operation() can return: none, or one of its own
OperationErrors == {"", "storage failure"}

\* the goroutine: operation() returns
OperationReturns ==
    \E r \in Requests, e \in OperationErrors :
        /\ requests[r].worker = "running"
        /\ requests' = [requests EXCEPT ![r].worker = "sending",
                                        ![r].local = e]
        /\ UNCHANGED <<stocks, countCache, countGroup, flights, pc, call,
                       lastOp, event, results, ranking, workerPool, ingest>>

\* make(chan AsyncResult[T], 1)
resultChanCap == 1

\* a send on resultChan when the channel has no buffer: it proceeds only
\* while the caller is at the inner select
CanSendUnbuffered(r) == requests[r].pc = "waiting"

\* a send on resultChan proceeds when its buffer has room
CanSend(r) == Len(requests[r].chan) < resultChanCap

\* the goroutine: resultChan <- AsyncResult{...}
Send ==
    \E r \in Requests :
        /\ requests[r].worker = "sending"
        /\ CanSend(r)
        /\ requests' = [requests EXCEPT
               ![r].worker = "sent",
               ![r].chan = Append(requests[r].chan, requests[r].local)]
        /\ UNCHANGED <<stocks, countCache, countGroup, flights, pc, call,
                       lastOp, event, results, ranking, workerPool, ingest>>

\* the goroutine: the deferred <-workerPool takes a token out and the
\* goroutine ends
Release ==
    \E r \in Requests :
        /\ requests[r].worker = "sent"
        /\ requests' = [requests EXCEPT ![r].worker = "exited"]
        /\ workerPool' = workerPool - 1
        /\ UNCHANGED <<stocks, countCache, countGroup, flights, pc, call,
                       lastOp, event, results, ranking, ingest>>

\* the inner select, case res := <-resultChan
Receive ==
    \E r \in Requests :
        /\ requests[r].pc = "waiting"
        /\ Len(requests[r].chan) > 0
        /\ requests' = [requests EXCEPT ![r].pc = "returned",
                                        ![r].err = Head(requests[r].chan),
                                        ![r].chan = Tail(requests[r].chan)]
        /\ UNCHANGED <<stocks, countCache, countGroup, flights, pc, call,
                       lastOp, event, results, ranking, workerPool, ingest>>

\* a timeout that gave the slot of its caller back
TimeoutReleasing ==
    \E r \in Requests :
        /\ requests[r].pc = "waiting"
        /\ requests' = [requests EXCEPT ![r].pc = "returned",
                                        ![r].err = "operation timeout"]
        /\ workerPool' = workerPool - 1
        /\ UNCHANGED <<stocks, countCache, countGroup, flights, pc, call,
                       lastOp, event, results, ranking, ingest>>

\* the inner select, case <-time.After(5 * time.Second)
Timeout ==
    \E r \in Requests :
        /\ requests[r].pc = "waiting"
        /\ requests' = [requests EXCEPT ![r].pc = "returned",
                                        ![r].err = "operation timeout"]
        /\ UNCHANGED <<stocks, countCache, countGroup, flights, pc, call,
                       lastOp, event, results, ranking, workerPool, ingest>>

\* the inner select, case <-c.Request.Context().Done()
Disconnect ==
    \E r \in Requests :
        /\ requests[r].pc = "waiting"
        /\ requests' = [requests EXCEPT ![r].pc = "returned",
                                        ![r].err = "client disconnected"]
        /\ UNCHANGED <<stocks, countCache, countGroup, flights, pc, call,
                       lastOp, event, results, ranking, workerPool, ingest>>

\* NewStockHandler: the channel is made empty
InitAsync ==
    /\ stocks = <<>>
    /\ countCache = <<>>
    /\ countGroup = <<>>
    /\ flights = <<>>
    /\ pc = [p \in Procs |-> "idle"]
    /\ call = [p \in Procs |-> NoCall]
    /\ lastOp = NoOp
    /\ event = NoEvent
    /\ results = <<>>
    /\ ranking = NoRanking
    /\ workerPool = 0
    /\ requests = [r \in Requests |-> NoRequest]
    /\ ingest = NoIngest

NextAsync ==
    \/ AsyncOperation
    \/ AsyncManyOperation
    \/ OperationReturns
    \/ Send
    \/ Release
    \/ Receive
    \/ Timeout
    \/ Disconnect

SpecAsync == InitAsync /\ [][NextAsync]_vars

\* the same, with every operation returning in the end and every goroutine
\* that can take its next step taking it in the end
SpecAsyncFair ==
    /\ SpecAsync
    /\ WF_vars(OperationReturns)
    /\ WF_vars(Send)
    /\ WF_vars(Release)

-----------------------------------------------------------------------------
(* Claims about the worker pool *)

\* the requests whose operation is running
Running == {r \in Requests : requests[r].worker = "running"}

\* the requests whose goroutine holds a slot of the pool
Holding ==
    {r \in Requests : requests[r].worker \in {"running", "sending", "sent"}}

\* C20: at every moment the number of operations running under
\* AsyncOperation / AsyncManyOperation is at most the capacity of the worker
\* pool, and a request that arrives while all slots are held returns
\* "server busy" in that same step, without taking a slot and without
\* starting its operation.
C20_PoolBound ==
    /\ [](Cardinality(Running) <= maxWorkers)
    /\ [][\A r \in Requests :
              (/\ requests[r].pc = "idle"
               /\ requests'[r].pc # "idle"
               /\ Cardinality(Holding) >= maxWorkers)
                  => /\ requests'[r].pc = "returned"
                     /\ requests'[r].err = "server busy"
                     /\ requests'[r].worker = "none"
                     /\ Cardinality(Holding') = Cardinality(Holding)
                     /\ Running' = Running]_vars

\* as many operations as the pool has slots are running and a further
\* request was turned away with "server busy"
C20_Witness ==
    /\ Cardinality(Running) = maxWorkers
    /\ \E r \in Requests :
           /\ requests[r].pc = "returned"
           /\ requests[r].err = "server busy"
           /\ requests[r].worker = "none"

\* the errors of a caller that gave up
GaveUp == {"operation timeout", "client disconnected"}

\* C21: every call that has ended ended in exactly one of four outcomes that
\* can be told apart: the result of its operation (received from a goroutine
\* that had sent it), "operation timeout", "client disconnected" (both with
\* the goroutine started), or "server busy" (no goroutine started); what a
\* call returned never changes afterwards, so a late result is not delivered
\* to it; and the goroutine of a caller that gave up can always send its
\* result.
C21_FourOutcomes ==
    /\ [](\A r \in Requests : requests[r].pc = "returned" =>
              /\ OperationErrors \cap (GaveUp \cup {"server busy"}) = {}
              /\ \/ /\ requests[r].err \in OperationErrors
                    /\ requests[r].worker \in {"sent", "exited"}
                    /\ requests[r].chan = <<>>
                 \/ /\ requests[r].err \in GaveUp
                    /\ requests[r].worker # "none"
                 \/ /\ requests[r].err = "server busy"
                    /\ requests[r].worker = "none")
    /\ [][\A r \in Requests : requests[r].pc = "returned" =>
              /\ requests'[r].pc = "returned"
              /\ requests'[r].err = requests[r].err]_vars
    /\ [](\A r \in Requests :
              (requests[r].err \in GaveUp /\ requests[r].worker = "sending")
                  => ENABLED (Send /\ requests'[r].worker = "sent"))

\* a caller returned "operation timeout", its operation finished afterwards,
\* and the late result lies in resultChan with the goroutine gone
C21_Witness ==
    \E r \in Requests :
        /\ requests[r].pc = "returned"
        /\ requests[r].err = "operation timeout"
        /\ requests[r].worker = "exited"
        /\ Len(requests[r].chan) = 1

-----------------------------------------------------------------------------
(* Claims about the handler FindStocks *)

\* the errors with which StockService.Find turns a request away
ValidationErrors ==
    {"invalid page", "invalid page size", "invalid sort order",
     "invalid sort field", "invalid filter field", "unsupported match mode"}

\* C22: when StockService.Find rejects the request for a validation reason,
\* FindStocks answers with a client error (status 400 to 499), which is not
\* the answer it gives to a storage failure, a timeout, a disconnect or a
\* busy pool.
C22_ValidationIsClientError ==
    (lastOp.op = "FindStocks" /\ lastOp.err.msg \in ValidationErrors)
        => /\ lastOp.status \in 400..499
           /\ [status |-> lastOp.status, message |-> lastOp.message]
                  \notin {Respond(e) : e \in {"storage", "operation timeout",
                                               "client disconnected",
                                               "server busy"}}

-----------------------------------------------------------------------------
(* StockBDRepository.SaveBatch *)

\* a batch insert that, when the statement fails, has written its first row
SaveBatchFirstRowKept(table, data, dbOk) ==
    IF dbOk THEN table \o [i \in 1..Len(data) |-> Row(data[i])]
    ELSE IF Len(data) > 0 THEN Append(table, Row(data[1]))
    ELSE table

\* CreateInBatches(data, len(data)): BeforeCreate runs on every element and
\* the rows go to the table in one INSERT, which writes all of them or, when
\* it fails, none
SaveBatchWrite(table, data, dbOk) ==
    IF dbOk THEN table \o [i \in 1..Len(data) |-> Row(data[i])]
    ELSE table

\* StockBDRepository.SaveBatch; it runs between the sequential operations
SaveBatch(data, dbOk) ==
    /\ lastOp.op = "none"
    /\ Len(stocks) + Len(data) <= MaxRows
    /\ stocks' = SaveBatchWrite(stocks, data, dbOk)
    /\ UNCHANGED <<countCache, countGroup, flights, pc, call, lastOp, event,
                   results, ranking, workerPool, requests, ingest>>

\* the events handed to Create: with an empty label list, and with labels
CreatedStocks ==
    { Stock("E1", "Acme", "", "", "", "", <<>>),
      Stock("T", "Tech Group", "", "", "", "", <<"Tech">>) }

\* the events handed to SaveBatch
BatchStocks ==
    { Stock("E2", "Acme", "", "", "", "", <<>>),
      Stock("T", "Tech Group", "", "", "", "", <<"Tech">>) }

\* the batches: every list of up to MaxRows of them
Batches == UNION {[1..n -> BatchStocks] : n \in 0..MaxRows}

NextStore ==
    \/ \E s \in CreatedStocks : Create(s)
    \/ \E data \in Batches, dbOk \in BOOLEAN : SaveBatch(data, dbOk)
    \/ \E id \in 1..MaxRows : Delete(id)
    \/ \E dbOk \in BOOLEAN :
          DirectFind(Pagination(0, 0, "", 0), <<>>, <<>>, dbOk)
    \/ Return

SpecStore == InitFind /\ [][NextStore]_vars

-----------------------------------------------------------------------------
(* Claims about the stored classifications *)

\* C23: an event written through Create or SaveBatch with an empty
\* classifications list is stored, and read back, with classifications
\* exactly {Neutral}, and no stored event has an empty classification list.
C23_EmptyStoredAsNeutral ==
    LET good(row) ==
            /\ row.Classifications # <<>>
            /\ row.Ticker \in {"E1", "E2"}
                   => row.Classifications = <<"Neutral">>
    IN  /\ \A i \in 1..Len(stocks) : good(stocks[i])
        /\ lastOp.op = "repo.Find" =>
               \A k \in 1..Len(lastOp.rows) : good(stocks[lastOp.rows[k]])

\* the table holds an event written empty by Create and one written empty by
\* SaveBatch, and both were read back as {Neutral}
C23_Witness ==
    /\ lastOp.op = "repo.Find"
    /\ {stocks[lastOp.rows[k]].Ticker : k \in 1..Len(lastOp.rows)}
           = {"E1", "E2"}
    /\ \A k \in 1..Len(lastOp.rows) :
           stocks[lastOp.rows[k]].Classifications = <<"Neutral">>

-----------------------------------------------------------------------------
(* ClassificationService.ClassifyBatch *)

\* Classify on one stock: its labels are replaced by the map keys in one of
\* the orders "for key := range" can yield
Classified(stock) ==
    {[stock EXCEPT !.Classifications = Reset(@) \o order] :
        order \in Orders(ClassifyLabels(stock))}

\* ClassifyBatch: Classify on every element, in turn
RECURSIVE ClassifyBatch(_)
ClassifyBatch(batch) ==
    IF Len(batch) = 0 THEN {<<>>}
    ELSE {<<h>> \o t : h \in Classified(Head(batch)),
                       t \in ClassifyBatch(Tail(batch))}

\* the actions of the events classified one by one and in batches: those of
\* Actions and some that hold two keywords
BatchActions ==
    Actions \cup {"Upgraded, was downgraded", "initiated, then Downgraded",
                  "Initiated and upgraded"}

\* the events classified alone
BatchEvents ==
    {Stock("T", c, t[1], t[2], a, r, l) :
        c \in {"Acme Pharma", "Tech Group", "Unknown Company"},
        t \in {<<"$10.00", "$12.00">>, <<"$10.00", "$7.50">>, <<"", "">>},
        a \in BatchActions, r \in Ratings, l \in PriorLabels}

\* the events of the batches, in the order of the longest batch
BatchList ==
    <<Stock("B1", "Unknown Company", "", "", "Upgraded, was downgraded", "",
            <<"Neutral">>),
      Stock("B2", "Unknown Company", "", "", "", "", <<>>),
      Stock("B2", "Unknown Company", "", "", "", "", <<>>),
      Stock("B3", "Acme Pharma", "$10.00", "$7.50", "", "",
            <<"Energy", "Bullish Signal">>),
      Stock("B4", "First Bank", "$10.00", "$12.00", "initiated by", "Buy",
            <<>>),
      Stock("B5", "Gas Medical", "", "", "", "Underweight", <<"Tech">>)>>

\* the batches: the empty one and every run of up to MaxBatchSize
\* consecutive events of BatchList
ClassifyBatches ==
    {SubSeq(BatchList, i, j) :
        i \in 1..Len(BatchList), j \in 0..Len(BatchList)}
    \cap UNION {[1..n -> Range(BatchList)] : n \in 0..MaxBatchSize}

\* Classify is called on one event
ClassifyCall ==
    /\ lastOp.op = "none"
    /\ \E stock \in BatchEvents :
           \E out \in Classified(stock) :
               lastOp' = [NoOp EXCEPT !.op = "Classify", !.batch = <<stock>>,
                                      !.rows = <<out>>]
    /\ UNCHANGED <<stocks, countCache, countGroup, flights, pc, call, event,
                   results, ranking, workerPool, requests, ingest>>

\* ClassifyBatch is called on a batch
ClassifyBatchCall ==
    /\ lastOp.op = "none"
    /\ \E batch \in ClassifyBatches :
           \E out \in ClassifyBatch(batch) :
               lastOp' = [NoOp EXCEPT !.op = "ClassifyBatch",
                                      !.batch = batch, !.rows = out]
    /\ UNCHANGED <<stocks, countCache, countGroup, flights, pc, call, event,
                   results, ranking, workerPool, requests, ingest>>

NextBatch == ClassifyCall \/ ClassifyBatchCall \/ Return

SpecBatch == InitFind /\ [][NextBatch]_vars

-----------------------------------------------------------------------------
(* BatchProcessor.ProcessStocks, after section 4.6 of the specification *)

\* the items of the feed, in feed order
FeedTickers == <<"AA", "BB", "CC", "DD", "EE">>

FeedCompanies == <<"Acme Pharma", "Unknown Company", "First Bank">>

FeedItem(i) ==
    Stock(FeedTickers[i], FeedCompanies[((i - 1) % 3) + 1],
          IF i % 3 = 1 THEN "$10.00" ELSE "",
          IF i % 3 = 1 THEN "$12.00" ELSE "", "", "", <<>>)

\* every way to cut a list of items into non-empty pages
RECURSIVE Pagings(_)
Pagings(items) ==
    IF Len(items) = 0 THEN {<<>>}
    ELSE UNION {{<<SubSeq(items, 1, k)>> \o rest :
                    rest \in Pagings(SubSeq(items, k + 1, Len(items)))} :
                k \in 1..Len(items)}

\* fetch(token, cursor) when it succeeds: the page at the cursor and whether
\* the feed gives a further cursor with it; the last page of the feed gives
\* one when the feed is open, and the page after it is empty
Fetch(feed, open, cursor) ==
    IF cursor <= Len(feed)
    THEN [items |-> feed[cursor], next |-> cursor < Len(feed) \/ open]
    ELSE [items |-> <<>>, next |-> FALSE]

\* one turn of the loop, up to the wait between pages: fetch the page at the
\* cursor (a failure ends the run); an empty page ends the run; the items go
\* to the buffer; when the buffer has reached the threshold, or the feed gave
\* no further cursor and the buffer is not empty, the buffer is classified
\* and written as one batch (a failure ends the run) and cleared; without a
\* further cursor the run ends, otherwise the wait begins
FetchPage ==
    /\ ingest.status = "fetching"
    /\ \E fetchOk \in BOOLEAN, saveOk \in BOOLEAN :
           LET page == Fetch(ingest.feed, ingest.open, ingest.cursor)
               buffer == ingest.buffer \o page.items
               fetched == [ingest EXCEPT !.fetches = @ + 1,
                                         !.fetched = @ \o page.items]
           IN  IF ~fetchOk
               THEN /\ ingest' = [ingest EXCEPT !.fetches = @ + 1,
                                                !.status = "failed",
                                                !.err = "fetch"]
                    /\ stocks' = stocks
               ELSE IF Len(page.items) = 0
               THEN /\ ingest' = [fetched EXCEPT !.status = "done"]
                    /\ stocks' = stocks
               ELSE IF Len(buffer) >= ingest.batchSize \/ ~page.next
               THEN \E batch \in ClassifyBatch(buffer) :
                        /\ stocks' = SaveBatchWrite(stocks, batch, saveOk)
                        /\ ingest' =
                               IF saveOk
                               THEN [fetched EXCEPT
                                        !.buffer = <<>>,
                                        !.writes = Append(@, batch),
                                        !.cursor = @ + 1,
                                        !.status = IF page.next THEN "waiting"
                                                   ELSE "done"]
                               ELSE [fetched EXCEPT !.buffer = batch,
                                                    !.status = "failed",
                                                    !.err = "save"]
               ELSE /\ ingest' = [fetched EXCEPT !.buffer = buffer,
                                                 !.cursor = @ + 1,
                                                 !.status = "waiting"]
                    /\ stocks' = stocks
    /\ UNCHANGED <<countCache, countGroup, flights, pc, call, lastOp, event,
                   results, ranking, workerPool, requests>>

\* the delay between two pages has passed
Wait ==
    /\ ingest.status = "waiting"
    /\ ingest' = [ingest EXCEPT !.status = "fetching"]
    /\ UNCHANGED <<stocks, countCache, countGroup, flights, pc, call, lastOp,
                   event, results, ranking, workerPool, requests>>

\* the context is cancelled during the delay
Cancel ==
    /\ ingest.status = "waiting"
    /\ ingest' = [ingest EXCEPT !.status = "failed", !.err = "cancelled"]
    /\ UNCHANGED <<stocks, countCache, countGroup, flights, pc, call, lastOp,
                   event, results, ranking, workerPool, requests>>

InitIngest ==
    /\ stocks = <<>>
    /\ countCache = <<>>
    /\ countGroup = <<>>
    /\ flights = <<>>
    /\ pc = [p \in Procs |-> "idle"]
    /\ call = [p \in Procs |-> NoCall]
    /\ lastOp = NoOp
    /\ event = NoEvent
    /\ results = <<>>
    /\ ranking = NoRanking
    /\ workerPool = 0
    /\ requests = [r \in Requests |-> NoRequest]
    /\ \E n \in 0..MaxItems, open \in BOOLEAN, size \in 1..MaxBatchSize :
           \E feed \in Pagings([i \in 1..n |-> FeedItem(i)]) :
               ingest = [NoIngest EXCEPT !.status = "fetching", !.feed = feed,
                                         !.open = open, !.batchSize = size,
                                         !.cursor = 1]

NextIngest == FetchPage \/ Wait \/ Cancel

SpecIngest == InitIngest /\ [][NextIngest]_vars

-----------------------------------------------------------------------------
(* Claims about the batch processor *)

Tickers(list) == [i \in 1..Len(list) |-> list[i].Ticker]

RECURSIVE Flatten(_)
Flatten(lists) ==
    IF Len(lists) = 0 THEN <<>> ELSE Head(lists) \o Flatten(Tail(lists))

\* C24: when the run has ended in Done, every item fetched has been
\* classified and then written in exactly one batch-write, in fetch order,
\* none twice, and none is left in the buffer, for every threshold and every
\* paging of the feed.
C24_DoneAllPersisted ==
    ingest.status = "done" =>
        /\ ingest.buffer = <<>>
        /\ Tickers(Flatten(ingest.writes)) = Tickers(ingest.fetched)
        /\ Tickers(stocks) = Tickers(ingest.fetched)
        /\ \A i \in 1..Len(stocks) :
               i <= Len(ingest.fetched) =>
                   Range(stocks[i].Classifications)
                       = ClassifyLabels(ingest.fetched[i])

\* C25: a run that was aborted is in Failed with the error of its cause; the
\* stored items are exactly those of the batch-writes that had succeeded and
\* none of the buffered items is among them; and nothing is fetched or
\* written afterwards.
C25_AbortKeepsCommitted ==
    /\ [](ingest.status = "failed" =>
              /\ ingest.err \in {"fetch", "save", "cancelled"}
              /\ Tickers(stocks) = Tickers(Flatten(ingest.writes))
              /\ Range(Tickers(stocks)) \cap Range(Tickers(ingest.buffer)) = {})
    /\ [][ingest.status = "failed" =>
              /\ ingest'.fetches = ingest.fetches
              /\ ingest'.status = "failed"
              /\ stocks' = stocks]_vars

\* a batch-write failed after an earlier one had succeeded: the first batch
\* is stored and the items of the second are in the buffer only
C25_Witness ==
    /\ ingest.status = "failed"
    /\ ingest.err = "save"
    /\ Len(ingest.writes) = 1
    /\ Len(stocks) > 0
    /\ Len(ingest.buffer) > 0

-----------------------------------------------------------------------------
(* Claims about the total of a Find *)

\* the rows a filter set selects in the table as it is now
MatchingNow(entries, order) ==
    Selected(stocks, applyFilters(FiltersMap(entries), order, <<>>).clauses)

\* C26: the total a successful StockService.Find returns is the number of
\* stored, non-deleted events that match its filters at the time of the
\* call, also when writes changed the matches after an earlier Find or Count
\* with the same filter set.
C26_TotalIsCurrentCount ==
    (lastOp.op = "Find" /\ lastOp.err = NoErr) =>
        lastOp.total = Cardinality(MatchingNow(lastOp.filters, lastOp.order))

-----------------------------------------------------------------------------
(* Claims about cancelled callers of Count *)

\* C27: a Count call whose own context was never cancelled does not return
\* the error of a cancelled context: what a caller gets depends on its own
\* context and on the storage, not on the context of the caller whose query
\* the single-flight call ran.
C27_OwnContextOnly ==
    \A p \in Procs :
        (pc[p] = "ret" /\ ~call[p].ctxDone) =>
            call[p].err # "context canceled"

-----------------------------------------------------------------------------
(* Claims about the release of worker slots *)

\* a slot leaves the pool only by the deferred receive of a goroutine whose
\* operation has returned and whose result is sent, one slot at a time, and
\* that goroutine is gone afterwards
ReleasedOncePerOperation ==
    [][workerPool' < workerPool =>
           /\ workerPool' = workerPool - 1
           /\ \E r \in Requests :
                  /\ requests[r].worker = "sent"
                  /\ requests'[r].worker = "exited"
                  /\ \A q \in Requests \ {r} :
                         requests'[q].worker = requests[q].worker]_vars

\* a caller that gives up leaves the pool and its goroutine as they are, and
\* a goroutine that has ended stays so
NotReleasedByCaller ==
    [][\A r \in Requests :
           /\ (requests[r].pc = "waiting" /\ requests'[r].pc = "returned"
                   /\ requests'[r].err \in GaveUp)
                  => (workerPool' = workerPool
                         /\ requests'[r].worker = requests[r].worker)
           /\ requests[r].worker = "exited"
                  => requests'[r].worker = "exited"]_vars

\* after a caller gave up, its slot is held as long as its operation runs
HeldWhileRunning ==
    [](\A r \in Requests :
           (requests[r].err \in GaveUp /\ requests[r].worker = "running")
               => workerPool >= 1 /\ r \in Holding)

\* every slot taken is free again in the end: each request makes one call,
\* so the pool is empty again and again exactly when no slot stays held
EverySlotFreedAgain == []<>(Holding = {} /\ workerPool = 0)

\* C28 as stated: every slot acquired is released exactly once, when its
\* operation returns and not when its caller gives up; the number of held
\* slots always equals the number of operations still running; and every
\* slot is free again in the end.
C28_HeldEqualsRunning ==
    /\ [](workerPool = Cardinality(Running))
    /\ ReleasedOncePerOperation
    /\ NotReleasedByCaller
    /\ HeldWhileRunning
    /\ EverySlotFreedAgain

\* C28, amended: every slot acquired is released exactly once, by the
\* goroutine of its operation after the operation has returned and its
\* result is sent, which waits for nothing, and not when its caller gives
\* up; the number of held slots always equals the number of operations whose
\* goroutine has not ended (running, or returned and not yet released); and
\* every slot is free again in the end.
C28_HeldEqualsUnfinished ==
    /\ [](workerPool = Cardinality(Holding))
    /\ [](\A r \in Requests :
              /\ requests[r].worker = "sending"
                     => ENABLED (Send /\ requests'[r].worker = "sent")
              /\ requests[r].worker = "sent"
                     => ENABLED (Release /\ requests'[r].worker = "exited"))
    /\ ReleasedOncePerOperation
    /\ NotReleasedByCaller
    /\ HeldWhileRunning
    /\ EverySlotFreedAgain

\* a caller has given up and the operation it started has returned since,
\* with its slot still held: no operation is running and one slot is held
C28_Witness ==
    \E r \in Requests :
        /\ requests[r].pc = "returned"
        /\ requests[r].err \in GaveUp
        /\ requests[r].worker = "sent"
        /\ Running = {}
        /\ workerPool = 1

-----------------------------------------------------------------------------
(* Claims about the label set of a classified event *)

ActionGroup == {"Bullish Signal", "Bearish Signal", "New Coverage"}

RatingGroup == {"Analyst Positive", "Analyst Negative"}

\* the action of the event mentions the word, in any case
Mentions(stock, word) == Contains(ToLower(stock.Action), word)

\* the one action label the priority upgraded, downgraded, initiated allows
FirstAction(stock) ==
    IF Mentions(stock, "upgraded") THEN {"Bullish Signal"}
    ELSE IF Mentions(stock, "downgraded") THEN {"Bearish Signal"}
    ELSE IF Mentions(stock, "initiated") THEN {"New Coverage"}
    ELSE {}

\* the labels of a classified event are well formed
LabelsWellFormed(before, after) ==
    LET seq == after.Classifications
        set == Range(seq)
    IN  /\ after = [before EXCEPT !.Classifications = seq]
        /\ Len(seq) > 0
        /\ Cardinality(set) = Len(seq)
        /\ Cardinality(set \cap Momentum) <= 1
        /\ Cardinality(set \cap RatingGroup) <= 1
        /\ Cardinality(set \cap ActionGroup) <= 1
        /\ set \cap ActionGroup = FirstAction(before)

\* C29: after Classify the labels of the event are not empty, hold no label
\* twice, at most one of High-Risk Speculative and Potential Growth, at most
\* one of Bullish Signal, Bearish Signal and New Coverage (the first of
\* upgraded, downgraded, initiated that the action mentions) and at most one
\* of Analyst Positive and Analyst Negative; and ClassifyBatch leaves on
\* each element of the batch exactly the labels Classify gives that element
\* alone.
C29_LabelSetShape ==
    lastOp.op \in {"Classify", "ClassifyBatch"} =>
        /\ Len(lastOp.rows) = Len(lastOp.batch)
        /\ \A i \in 1..Len(lastOp.rows) :
               /\ LabelsWellFormed(lastOp.batch[i], lastOp.rows[i])
               /\ lastOp.rows[i] \in Classified(lastOp.batch[i])

\* a batch of three was classified: its first element, whose action
\* mentions upgraded and downgraded, carries Bullish Signal and not Bearish
\* Signal, and its two equal elements carry equal label sets
C29_Witness ==
    /\ lastOp.op = "ClassifyBatch"
    /\ Len(lastOp.rows) = 3
    /\ Mentions(lastOp.batch[1], "downgraded")
    /\ "Bullish Signal" \in Range(lastOp.rows[1].Classifications)
    /\ lastOp.batch[2] = lastOp.batch[3]
    /\ Range(lastOp.rows[2].Classifications)
           = Range(lastOp.rows[3].Classifications)

-----------------------------------------------------------------------------
(* Claims about classification and scoring together *)

\* the change percentage of Classify is defined: both targets parse and
\* targetFrom passes its guard
ChangeDefined(stock) ==
    /\ parsePrice(stock.TargetFrom).ok
    /\ parsePrice(stock.TargetTo).ok
    /\ parsePrice(stock.TargetFrom).num > 0

\* the change percentage of Classify, where it is defined
ChangePct(stock) ==
    LET f == parsePrice(stock.TargetFrom)
        t == parsePrice(stock.TargetTo)
    IN  FracTimes(Frac(t.num * f.den - f.num * t.den, f.num * t.den), 100)

\* C30: on an event that was classified and then ranked, the change
\* percentage is defined for Classify exactly when the upside is defined for
\* scoring, the two values are equal, and the event carries Potential Growth
\* exactly when its rationale holds the reason "Potential of X%".
C30_SamePriceChange ==
    ranking.status \in {"returned", "panic"} =>
        LET stock == ranking.input[1]
        IN  /\ ChangeDefined(stock) <=> GetUpside(stock).ok
            /\ ChangeDefined(stock) =>
                   FracEq(ChangePct(stock), GetUpside(stock).value)
            /\ "Potential Growth" \in Range(stock.Classifications)
                   <=> /\ ranking.status = "returned"
                       /\ Contains(ranking.out[1].Rationale, "Potential of ")

====
